---- MODULE Spec2Model ----
(***************************************************************************)
(* The AI chat turn of the fitness backend: POST /ai/chat                  *)
(* (backend/app/routes/ai.py), its tool dispatcher and the twenty tool     *)
(* handlers, run against the request's database session                    *)
(* (backend/app/models/base.py).                                           *)
(*                                                                         *)
(* JSON values are written as strings: "500" is the number 500, "abc" a    *)
(* JSON string where a number is expected, Null is JSON null / None.       *)
(***************************************************************************)
EXTENDS Integers, Sequences, FiniteSets, TLC

\* ---------------------------------------------------------------- bounds
MaxCalls == 2

\* ----------------------------------------------------------- basic values
Null == "<None>"
Acting == "user-A"
OtherUser == "user-B"
Today == "2024-01-02"
EmptyArgs == [f \in {} |-> Null]
NoneResult == [is_none |-> TRUE]

Numbers == {"0", "1", "25", "70", "72", "80", "100", "180", "500", "2000"}  \* JSON numbers
IsNumber(v) == v \in Numbers
IsNullableNumber(v) == v = Null \/ v \in Numbers

Has(args, f) == f \in DOMAIN args                                   \* "f" in args
Get(args, f, d) == IF f \in DOMAIN args THEN args[f] ELSE d          \* args.get(f, d)
Truthy(v) == v # Null /\ v # "" /\ v # "0"                          \* bool(v)

\* str(KeyError(f))
KeyErrorMsg(f) == "'" \o f \o "'"

\* ------------------------------------------------------------- enum types
MealType == {"breakfast", "lunch", "dinner", "snack", "other"}
WorkoutType == {"strength", "cardio", "hiit", "flexibility", "sports", "walking",
                "running", "cycling", "swimming", "other"}
MuscleGroup == {"chest", "back", "shoulders", "biceps", "triceps", "forearms", "core",
                "quads", "hamstrings", "glutes", "calves"}
GoalType == {"cut", "maintain", "bulk"}
ActivityLevel == {"sedentary", "light", "moderate", "active", "very_active"}

\* datetime.fromisoformat(args["timestamp"]) if args.get("timestamp") else datetime.utcnow()
IsoDay == [t \in {"2024-01-01T08:00:00", "2024-01-02T08:00:00"} |->
             IF t = "2024-01-01T08:00:00" THEN "2024-01-01" ELSE "2024-01-02"]
TimestampOf(args) ==
    IF ~Truthy(Get(args, "timestamp", Null)) THEN [ok |-> TRUE, day |-> Today, naive |-> TRUE]
    ELSE IF args["timestamp"] \in DOMAIN IsoDay
         THEN [ok |-> TRUE, day |-> IsoDay[args["timestamp"]], naive |-> TRUE]
         ELSE [ok |-> FALSE, day |-> Null, naive |-> TRUE]

\* datetime.strptime(s, "%Y-%m-%d")
DateStrings == {"2024-01-01", "2024-01-02", "1990-05-17"}
IsDate(s) == s \in DateStrings

\* UUID(args["..."]): the identifiers the stored rows carry, as text
UuidText == [s \in {"uuid-1", "uuid-2", "uuid-3", "uuid-4", "uuid-9"} |->
               CASE s = "uuid-1" -> 1 [] s = "uuid-2" -> 2 [] s = "uuid-3" -> 3
                 [] s = "uuid-4" -> 4 [] OTHER -> 9]
IsUuid(s) == s \in DOMAIN UuidText

\* ------------------------------------------------------------ stored data
\* One record per table; a table maps row id -> row.  user is the acting
\* user's user_profiles row.
InitialUser(height) ==
    [display_name |-> "Ann", sex |-> "female", birth_date |-> "1990-05-17",
     height_cm |-> height, current_weight_kg |-> "70",
     activity_level |-> "moderate", goal_type |-> "maintain",
     goal_rate_kg_per_week |-> "0", target_weight_kg |-> Null]

EmptyTable == [i \in {} |-> Null]

InitialData(height, withTargets) ==
    [user |-> InitialUser(height),
     targets |-> IF withTargets
                 THEN (5 :> [user_id |-> Acting, calories |-> "2000", protein_g |-> "100",
                             carbs_g |-> "180", fat_g |-> "70", fiber_g |-> Null,
                             bmr |-> "1", tdee |-> "1"])
                 ELSE EmptyTable,
     meals |-> (1 :> [user_id |-> Acting, name |-> "Oats", meal_type |-> "breakfast",
                      day |-> Today, items |-> <<>>, total_calories |-> 100, total_protein_g |-> 25])
            @@ (2 :> [user_id |-> OtherUser, name |-> "Steak", meal_type |-> "dinner",
                      day |-> Today, items |-> <<>>, total_calories |-> 500, total_protein_g |-> 70]),
     workouts |-> (1 :> [user_id |-> Acting, name |-> "Run", workout_type |-> "running",
                         duration_min |-> "25", calories_burned |-> Null])
               @@ (2 :> [user_id |-> OtherUser, name |-> "Swim", workout_type |-> "swimming",
                         duration_min |-> "25", calories_burned |-> Null]),
     plans |-> (1 :> [user_id |-> Acting, name |-> "Push", workout_type |-> "strength",
                      is_active |-> "true", exercise_count |-> 0])
            @@ (2 :> [user_id |-> OtherUser, name |-> "Pull", workout_type |-> "strength",
                      is_active |-> "true", exercise_count |-> 0]),
     water |-> EmptyTable,
     weights |-> EmptyTable,
     foods |-> EmptyTable,
     chat |-> <<>>]

FirstFreeId == 10

\* Column types and NOT NULL constraints the database enforces when a row
\* is written (Integer / Float columns reject a JSON string; a NOT NULL
\* column rejects None).
ValidUser(u) ==
    /\ IsNullableNumber(u.height_cm) /\ IsNullableNumber(u.current_weight_kg)
    /\ IsNumber(u.goal_rate_kg_per_week) /\ IsNullableNumber(u.target_weight_kg)
ValidTargets(r) ==
    /\ IsNumber(r.calories) /\ IsNumber(r.protein_g) /\ IsNumber(r.carbs_g)
    /\ IsNumber(r.fat_g) /\ IsNullableNumber(r.fiber_g)
ValidMeal(r) ==
    /\ r.name # Null
    /\ \A k \in DOMAIN r.items : r.items[k].name # Null /\ IsNumber(r.items[k].grams)
ValidWorkout(r) == r.name # Null /\ IsNumber(r.duration_min) /\ IsNullableNumber(r.calories_burned)
ValidPlan(r) == r.name # Null /\ r.is_active \in {"true", "false"}
ValidWater(r) == IsNumber(r.amount_ml)
ValidWeight(r) ==
    /\ IsNumber(r.weight_kg) /\ IsNullableNumber(r.body_fat_percent)
    /\ IsNullableNumber(r.muscle_mass_kg) /\ IsNullableNumber(r.water_percent)
ValidFood(r) ==
    /\ r.name # Null /\ IsNumber(r.calories_per_100g) /\ IsNumber(r.protein_per_100g)
    /\ IsNumber(r.carbs_per_100g) /\ IsNumber(r.fat_per_100g) /\ IsNumber(r.default_serving_g)
ValidData(d) ==
    /\ ValidUser(d.user)
    /\ \A i \in DOMAIN d.targets : ValidTargets(d.targets[i])
    /\ \A i \in DOMAIN d.meals : ValidMeal(d.meals[i])
    /\ \A i \in DOMAIN d.workouts : ValidWorkout(d.workouts[i])
    /\ \A i \in DOMAIN d.plans : ValidPlan(d.plans[i])
    /\ \A i \in DOMAIN d.water : ValidWater(d.water[i])
    /\ \A i \in DOMAIN d.weights : ValidWeight(d.weights[i])
    /\ \A i \in DOMAIN d.foods : ValidFood(d.foods[i])
    \* macro_targets.user_id is declared unique
    /\ Cardinality({i \in DOMAIN d.targets : d.targets[i].user_id = Acting}) <= 1

\* ------------------------------------------------- the request's session
\* AsyncSessionLocal(autoflush=False, expire_on_commit=False): one session
\* and one transaction per request.
\*   base  the committed data the transaction started from
\*   txn   what the transaction has written (flushed) so far
\*   mem   the session's objects: loaded rows with their unflushed
\*         attribute changes, and added rows not yet flushed
\*   state "active", or "inactive" once a statement or flush has failed:
\*         the transaction is rolled back and every later statement raises
\*   ops   number of statements/flushes attempted;  uuid  next uuid4
\*   date_of_birth  the attribute _update_profile sets on the user object
\*         (user_profiles has no such column; the column is birth_date)
NewSession(data, uuid) ==
    [state |-> "active", base |-> data, txn |-> data, mem |-> data,
     ops |-> 0, uuid |-> uuid, date_of_birth |-> Null]

RolledBack(db) == [db EXCEPT !.state = "inactive", !.txn = db.base, !.mem = db.base]

\* await db.execute(select(...)): fault is a failure of the statement itself
Execute(db, fault) ==
    IF db.state # "active"
    THEN [ok |-> FALSE, db |-> [db EXCEPT !.ops = @ + 1], exc |-> "PendingRollbackError"]
    ELSE IF fault
    THEN [ok |-> FALSE, db |-> [RolledBack(db) EXCEPT !.ops = @ + 1], exc |-> "DBAPIError"]
    ELSE [ok |-> TRUE, db |-> [db EXCEPT !.ops = @ + 1], exc |-> Null]

\* await db.flush(): writes every added/changed object of the session
Flush(db, fault) ==
    IF db.state # "active"
    THEN [ok |-> FALSE, db |-> [db EXCEPT !.ops = @ + 1], exc |-> "PendingRollbackError"]
    ELSE IF fault \/ ~ValidData(db.mem)
    THEN [ok |-> FALSE, db |-> [RolledBack(db) EXCEPT !.ops = @ + 1], exc |-> "DBAPIError"]
    ELSE [ok |-> TRUE, db |-> [db EXCEPT !.ops = @ + 1, !.txn = db.mem], exc |-> Null]

\* db.add(row) of a new object; its id is the next uuid4
AddRow(db, table, row) ==
    [db EXCEPT !.mem[table] = @ @@ (db.uuid :> row), !.uuid = @ + 1]
\* attribute assignment on a loaded object
SetAttr(db, table, id, attr, v) == [db EXCEPT !.mem[table][id][attr] = v]
SetUser(db, attr, v) == [db EXCEPT !.mem.user[attr] = v]
\* await db.delete(obj)
DeleteRow(db, table, id) ==
    [db EXCEPT !.mem[table] = [i \in DOMAIN @ \ {id} |-> @[i]]]

\* faulty variant of OwnRow: the lookup by id without the user_id condition
AnyUsersRow(db, table, id) ==
    {i \in DOMAIN db.txn[table] \cap DOMAIN db.mem[table] : i = id}
\* select(T).where(T.id == id, T.user_id == user.id): the rows the
\* transaction holds, returned as the session's objects
OwnRow(db, table, id) ==
    {i \in DOMAIN db.txn[table] \cap DOMAIN db.mem[table] :
        i = id /\ db.txn[table][i].user_id = Acting}
OwnRows(db, table) ==
    {i \in DOMAIN db.txn[table] \cap DOMAIN db.mem[table] : db.txn[table][i].user_id = Acting}

\* --------------------------------------------------------- handler returns
ToolResult(id, result, success, error) ==
    [tool_call_id |-> id, result |-> result, success |-> success, error |-> error]
NoToolResult == ToolResult(Null, NoneResult, FALSE, Null)

\* a handler either returns a ToolResult or raises
Return(db, res) == [db |-> db, raised |-> FALSE, exc |-> Null, result |-> res]
Raise(db, msg) == [db |-> db, raised |-> TRUE, exc |-> msg, result |-> NoToolResult]
Ok(db, id, result) == Return(db, ToolResult(id, result, TRUE, Null))
\* faulty variant of NotOk: a failure that still carries a result
NotOkWithResult(db, id, error) == Return(db, ToolResult(id, [partial |-> TRUE], FALSE, error))
NotOk(db, id, error) == Return(db, ToolResult(id, NoneResult, FALSE, error))

\* the number a JSON number stands for
NumVal(s) ==
    CASE s = "0" -> 0 [] s = "1" -> 1 [] s = "25" -> 25 [] s = "70" -> 70 [] s = "72" -> 72
      [] s = "80" -> 80 [] s = "100" -> 100 [] s = "180" -> 180 [] s = "500" -> 500
      [] OTHER -> 2000

RECURSIVE SumOver(_, _)
SumOver(items, field) ==
    IF items = <<>> THEN 0 ELSE NumVal(Head(items)[field]) + SumOver(Tail(items), field)

\* first of the listed keys that args lacks, or Null
RECURSIVE FirstMissing(_, _)
FirstMissing(args, keys) ==
    IF keys = <<>> THEN Null
    ELSE IF ~Has(args, Head(keys)) THEN Head(keys)
    ELSE FirstMissing(args, Tail(keys))

\* ------------------------------------------------------------ the handlers
\* Each takes the session, the tool call's arguments and id, and whether the
\* handler's first statement fails in the database; each returns or raises.

ItemKeys == <<"name", "calories", "protein_g", "carbs_g", "fat_g">>
\* first item of the list that lacks a key FoodItem(...) indexes, as its KeyError
RECURSIVE ItemKeyError(_)
ItemKeyError(items) ==
    IF items = <<>> THEN Null
    ELSE IF FirstMissing(Head(items), ItemKeys) # Null THEN FirstMissing(Head(items), ItemKeys)
    ELSE ItemKeyError(Tail(items))

FoodItemOf(item_data) ==
    [name |-> item_data["name"], grams |-> Get(item_data, "grams", "100"),
     calories |-> item_data["calories"], protein_g |-> item_data["protein_g"],
     carbs_g |-> item_data["carbs_g"], fat_g |-> item_data["fat_g"]]

_add_meal(db, args, id, fault) ==
    LET ts == TimestampOf(args)
        items == Get(args, "items", <<>>)
    IN  IF ~ts.ok THEN Raise(db, "Invalid isoformat string")
        ELSE IF Get(args, "meal_type", "other") \notin MealType
        THEN Raise(db, "not a valid MealType")
        ELSE IF ~Has(args, "name") THEN Raise(db, KeyErrorMsg("name"))
        ELSE IF ItemKeyError(items) # Null THEN Raise(db, KeyErrorMsg(ItemKeyError(items)))
        ELSE IF \E k \in DOMAIN items :
                   \E f \in {"calories", "protein_g", "carbs_g", "fat_g"} : ~IsNumber(items[k][f])
        THEN Raise(db, "unsupported operand type(s) for +")       \* recalculate_totals
        ELSE
        LET meal == [user_id |-> Acting, name |-> args["name"],
                     meal_type |-> Get(args, "meal_type", "other"), day |-> ts.day,
                     items |-> [k \in DOMAIN items |-> FoodItemOf(items[k])],
                     total_calories |-> SumOver(items, "calories"),
                     total_protein_g |-> SumOver(items, "protein_g")]
            mid == db.uuid
            f == Flush(AddRow(db, "meals", meal), fault)
        IN  IF ~f.ok THEN Raise(f.db, f.exc)
            ELSE Ok(f.db, id, [meal_id |-> mid, name |-> meal.name,
                               total_calories |-> meal.total_calories,
                               total_protein_g |-> meal.total_protein_g])

_add_workout(db, args, id, fault) ==
    LET ts == TimestampOf(args)
    IN  IF ~ts.ok THEN Raise(db, "Invalid isoformat string")
        ELSE IF Get(args, "workout_type", "other") \notin WorkoutType
        THEN Raise(db, "not a valid WorkoutType")
        ELSE IF ~Has(args, "name") THEN Raise(db, KeyErrorMsg("name"))
        ELSE IF ~Has(args, "duration_min") THEN Raise(db, KeyErrorMsg("duration_min"))
        ELSE
        LET log == [user_id |-> Acting, name |-> args["name"],
                    workout_type |-> Get(args, "workout_type", "other"),
                    duration_min |-> args["duration_min"],
                    calories_burned |-> Get(args, "calories_burned", Null)]
            wid == db.uuid
            f == Flush(AddRow(db, "workouts", log), fault)
        IN  IF ~f.ok THEN Raise(f.db, f.exc)
            ELSE Ok(f.db, id, [workout_id |-> wid, name |-> log.name,
                               duration_min |-> log.duration_min])

\* try: WorkoutType(v) except ValueError: WorkoutType.OTHER
WorkoutTypeOrOther(v) == IF v \in WorkoutType THEN v ELSE "other"

_add_workout_plan(db, args, id, fault) ==
    LET exercises == Get(args, "exercises", <<>>)
    IN  IF ~Has(args, "name") THEN Raise(db, KeyErrorMsg("name"))
        ELSE IF \E k \in DOMAIN exercises : ~Has(exercises[k], "name")
        THEN Raise(db, KeyErrorMsg("name"))
        ELSE
        LET plan == [user_id |-> Acting, name |-> args["name"],
                     workout_type |-> WorkoutTypeOrOther(Get(args, "workout_type", "other")),
                     is_active |-> Get(args, "is_active", "true"),
                     exercise_count |-> Len(exercises)]
            pid == db.uuid
            f == Flush(AddRow(db, "plans", plan), fault)
        IN  IF ~f.ok THEN Raise(f.db, f.exc)
            ELSE Ok(f.db, id, [plan_id |-> pid, name |-> plan.name,
                               workout_type |-> plan.workout_type,
                               exercise_count |-> plan.exercise_count,
                               is_active |-> plan.is_active])

_add_water(db, args, id, fault) ==
    LET ts == TimestampOf(args)
    IN  IF ~ts.ok THEN Raise(db, "Invalid isoformat string")
        ELSE IF ~Has(args, "amount_ml") THEN Raise(db, KeyErrorMsg("amount_ml"))
        ELSE
        LET entry == [user_id |-> Acting, amount_ml |-> args["amount_ml"], day |-> ts.day]
            eid == db.uuid
            f == Flush(AddRow(db, "water", entry), fault)
        IN  IF ~f.ok THEN Raise(f.db, f.exc)
            ELSE Ok(f.db, id, [entry_id |-> eid, amount_ml |-> entry.amount_ml])

\* the methods class AuthService defines; a call of any other name on
\* auth_service raises AttributeError
AuthServiceMethods ==
    {"create_access_token", "create_refresh_token", "create_token_pair", "verify_token",
     "create_magic_link_token", "verify_magic_link_token", "get_magic_link_url",
     "_cleanup_expired_magic_links", "get_or_create_user", "authenticate_with_apple"}
AuthServiceCallRaises(method) == method \notin AuthServiceMethods
AttributeErrorMsg == "'AuthService' object has no attribute 'sync_user_profile'"

\* faulty variant of _add_weight: the entry is written and success reported,
\* the user's current weight is left alone
AddWeightEntryOnly(db, args, id, fault) ==
    LET Flushed(f) == IF ~f.ok THEN Raise(f.db, f.exc)
                      ELSE Ok(f.db, id, [entry_id |-> db.uuid, weight_kg |-> args["weight_kg"]])
    IN  IF ~Has(args, "weight_kg") THEN Raise(db, KeyErrorMsg("weight_kg"))
        ELSE Flushed(Flush(AddRow(db, "weights",
                 [user_id |-> Acting, weight_kg |-> args["weight_kg"], day |-> Today,
                  body_fat_percent |-> Null, muscle_mass_kg |-> Null,
                  water_percent |-> Null, naive |-> TRUE]), fault))

_add_weight(db, args, id, fault) ==
    LET ts == TimestampOf(args)
    IN  IF ~ts.ok THEN Raise(db, "Invalid isoformat string")
        ELSE IF ~Has(args, "weight_kg") THEN Raise(db, KeyErrorMsg("weight_kg"))
        ELSE
        LET entry == [user_id |-> Acting, weight_kg |-> args["weight_kg"], day |-> ts.day,
                      body_fat_percent |-> Null, muscle_mass_kg |-> Null,
                      water_percent |-> Null, naive |-> TRUE]
            eid == db.uuid
            db1 == SetUser(AddRow(db, "weights", entry), "current_weight_kg", args["weight_kg"])
            f == Flush(db1, fault)
        IN  IF ~f.ok THEN Raise(f.db, f.exc)
            ELSE IF AuthServiceCallRaises("sync_user_profile") THEN Raise(f.db, AttributeErrorMsg)
            ELSE Ok(f.db, id, [entry_id |-> eid, weight_kg |-> entry.weight_kg])

\* UserProfile.age: None without a birth date, else the years since it
AgeOf(birth_date) == IF birth_date = Null THEN Null ELSE "25"

\* reading an attribute of a loaded object that was never assigned since the
\* rollback expired it: the reload is a statement on the inactive session
ReadLoaded(db) == IF db.state = "active" THEN [ok |-> TRUE, db |-> db, exc |-> Null]
                  ELSE Execute(db, FALSE)

\* MacroCalculator.calculate_macros on the user's attributes: arithmetic on a
\* JSON string raises TypeError; the targets are kept abstract (one value per goal)
MacroInputsNumeric(u) ==
    /\ IsNumber(u.current_weight_kg) /\ IsNumber(u.height_cm)
    /\ (u.goal_type # "maintain" => IsNumber(u.goal_rate_kg_per_week))
MacroTargetsFor(u) ==
    [calories |-> CASE u.goal_type = "cut" -> "500" [] u.goal_type = "bulk" -> "2000"
                    [] OTHER -> "1",
     protein_g |-> "100", carbs_g |-> "180", fat_g |-> "70"]

AssignMacros(db, tid, m) ==
    SetAttr(SetAttr(SetAttr(SetAttr(db, "targets", tid, "calories", m.calories),
        "targets", tid, "protein_g", m.protein_g), "targets", tid, "carbs_g", m.carbs_g),
        "targets", tid, "fat_g", m.fat_g)

\* lines 494-526 of _set_goal: recalculate and upsert the targets row
RecalculateTargets(db, fault) ==
    LET u == db.mem.user
        q == Execute(db, fault)
        found == OwnRows(q.db, "targets")
        m == MacroTargetsFor(u)
    IN  IF ~MacroInputsNumeric(u) THEN [ok |-> FALSE, db |-> db, exc |-> "unsupported operand type(s)"]
        ELSE IF ~q.ok THEN q
        ELSE IF Cardinality(found) > 1
        THEN [ok |-> FALSE, db |-> q.db, exc |-> "Multiple rows were found when one or none was required"]
        ELSE IF found # {}
        THEN [ok |-> TRUE, db |-> AssignMacros(q.db, CHOOSE t \in found : TRUE, m), exc |-> Null]
        ELSE [ok |-> TRUE, exc |-> Null,
              db |-> AddRow(q.db, "targets",
                        [user_id |-> Acting, calories |-> m.calories, protein_g |-> m.protein_g,
                         carbs_g |-> m.carbs_g, fat_g |-> m.fat_g, fiber_g |-> Null,
                         bmr |-> Null, tdee |-> Null])]

\* lines 494-538 of _set_goal, once the arguments have been assigned
GoalRecalculated(s, id, fault) ==
    LET u == s.mem.user
        enough == /\ Truthy(u.sex) /\ Truthy(AgeOf(u.birth_date))
                  /\ Truthy(u.height_cm) /\ Truthy(u.current_weight_kg)
        Flushed(f) ==
            IF ~f.ok THEN Raise(f.db, f.exc)
            ELSE IF AuthServiceCallRaises("sync_user_profile") THEN Raise(f.db, AttributeErrorMsg)
            ELSE Ok(f.db, id, [goal_type |-> f.db.mem.user.goal_type,
                               activity_level |-> f.db.mem.user.activity_level])
        Recalculated(rc) ==
            IF ~rc.ok THEN Raise(rc.db, rc.exc) ELSE Flushed(Flush(rc.db, FALSE))
        Loaded(rd) ==
            IF ~rd.ok THEN Raise(rd.db, rd.exc)
            ELSE IF enough THEN Recalculated(RecalculateTargets(s, fault))
            ELSE Flushed(Flush(s, fault))
    IN  Loaded(ReadLoaded(s))

_set_goal(db, args, id, fault) ==
    LET s1 == IF Has(args, "goal_type") THEN SetUser(db, "goal_type", args["goal_type"]) ELSE db
        s2 == IF Has(args, "goal_rate_kg_per_week")
              THEN SetUser(s1, "goal_rate_kg_per_week", args["goal_rate_kg_per_week"]) ELSE s1
        s3 == IF Has(args, "activity_level")
              THEN SetUser(s2, "activity_level", args["activity_level"]) ELSE s2
        s4 == IF Has(args, "target_weight_kg")
              THEN SetUser(s3, "target_weight_kg", args["target_weight_kg"]) ELSE s3
    IN  IF Has(args, "goal_type") /\ args["goal_type"] \notin GoalType
        THEN Raise(db, "not a valid GoalType")
        ELSE IF Has(args, "activity_level") /\ args["activity_level"] \notin ActivityLevel
        THEN Raise(s2, "not a valid ActivityLevel")
        ELSE GoalRecalculated(s4, id, fault)

MacroKeys == <<"calories", "protein_g", "carbs_g", "fat_g">>
\* targets.<k> = args[k] for the keys in order, stopping at the first KeyError
RECURSIVE AssignUntilMissing(_, _, _, _)
AssignUntilMissing(db, tid, args, keys) ==
    IF keys = <<>> \/ ~Has(args, Head(keys)) THEN db
    ELSE AssignUntilMissing(SetAttr(db, "targets", tid, Head(keys), args[Head(keys)]),
                            tid, args, Tail(keys))

_set_custom_macros(db, args, id, fault) ==
    LET q == Execute(db, fault)
        found == OwnRows(q.db, "targets")
        missing == FirstMissing(args, MacroKeys)
    IN  IF ~q.ok THEN Raise(q.db, q.exc)
        ELSE IF Cardinality(found) > 1
        THEN Raise(q.db, "Multiple rows were found when one or none was required")
        ELSE IF found # {}
        THEN LET tid == CHOOSE t \in found : TRUE
                 a == AssignUntilMissing(q.db, tid, args, MacroKeys)
                 b == SetAttr(SetAttr(SetAttr(a, "targets", tid, "fiber_g", Get(args, "fiber_g", Null)),
                              "targets", tid, "bmr", Null), "targets", tid, "tdee", Null)
                 f == Flush(b, FALSE)
             IN  IF missing # Null THEN Raise(a, KeyErrorMsg(missing))
                 ELSE IF ~f.ok THEN Raise(f.db, f.exc)
                 ELSE Ok(f.db, id, [calories |-> args["calories"], protein_g |-> args["protein_g"],
                                    carbs_g |-> args["carbs_g"], fat_g |-> args["fat_g"],
                                    fiber_g |-> Get(args, "fiber_g", Null)])
        ELSE LET row == [user_id |-> Acting, calories |-> args["calories"],
                         protein_g |-> args["protein_g"], carbs_g |-> args["carbs_g"],
                         fat_g |-> args["fat_g"], fiber_g |-> Get(args, "fiber_g", Null),
                         bmr |-> Null, tdee |-> Null]
                 f == Flush(AddRow(q.db, "targets", row), FALSE)
             IN  IF missing # Null THEN Raise(q.db, KeyErrorMsg(missing))
                 ELSE IF ~f.ok THEN Raise(f.db, f.exc)
                 ELSE Ok(f.db, id, [calories |-> row.calories, protein_g |-> row.protein_g,
                                    carbs_g |-> row.carbs_g, fat_g |-> row.fat_g,
                                    fiber_g |-> row.fiber_g])

\* the Open Food Facts service: what it knows; its client returns None / []
\* for anything else and never raises
OffBarcodes == {"737628064502"}
OffSearch(query) == IF query = "oats" THEN <<[name |-> "Rolled oats", brand |-> Null,
                                              calories_per_100g |-> "100"]>> ELSE <<>>

_search_food(db, args, id, fault) ==
    IF Truthy(Get(args, "barcode", Null))
    THEN IF args["barcode"] \in OffBarcodes
         THEN Ok(db, id, [name |-> "Noodles", brand |-> Null, calories_per_100g |-> "100",
                          protein_per_100g |-> "1", carbs_per_100g |-> "72", fat_per_100g |-> "1"])
         ELSE NotOk(db, id, "Product not found")
    ELSE IF Truthy(Get(args, "query", Null))
    THEN Ok(db, id, [list |-> OffSearch(args["query"])])
    ELSE NotOk(db, id, "No query or barcode provided")

RECURSIVE SumRows(_, _, _)
SumRows(table, ids, field) ==
    IF ids = {} THEN 0
    ELSE LET i == CHOOSE j \in ids : TRUE
         IN  table[i][field] + SumRows(table, ids \ {i}, field)
RECURSIVE SumWater(_, _)
SumWater(table, ids) ==
    IF ids = {} THEN 0
    ELSE LET i == CHOOSE j \in ids : TRUE
         IN  NumVal(table[i].amount_ml) + SumWater(table, ids \ {i})

\* faulty variant of _get_daily_summary: every summary also logs a glass of water
SummaryThatLogs(db, args, id, fault) ==
    LET logged == [db EXCEPT !.mem.water = @ @@ (db.uuid :> [user_id |-> Acting,
                                                           amount_ml |-> "1", day |-> Today]),
                             !.txn.water = @ @@ (db.uuid :> [user_id |-> Acting,
                                                           amount_ml |-> "1", day |-> Today]),
                             !.uuid = @ + 1]
        water == {i \in OwnRows(logged, "water") : logged.txn.water[i].day = Today}
    IN  Ok(logged, id, [date |-> Today, water_ml |-> SumWater(logged.mem.water, water)])

_get_daily_summary(db, args, id, fault) ==
    LET date_str == Get(args, "date", Today)
        q1 == Execute(db, fault)
        q2 == Execute(q1.db, FALSE)
        meals == {i \in OwnRows(db, "meals") : db.txn.meals[i].day = date_str}
        water == {i \in OwnRows(db, "water") : db.txn.water[i].day = date_str}
    IN  IF date_str = Null THEN Raise(db, "strptime() argument 1 must be str, not None")
        ELSE IF ~IsDate(date_str) THEN Raise(db, "time data does not match format '%Y-%m-%d'")
        ELSE IF ~q1.ok THEN Raise(q1.db, q1.exc)
        ELSE IF ~q2.ok THEN Raise(q2.db, q2.exc)
        ELSE Ok(q2.db, id, [date |-> date_str,
                            calories |-> SumRows(db.mem.meals, meals, "total_calories"),
                            protein_g |-> SumRows(db.mem.meals, meals, "total_protein_g"),
                            meals_count |-> Cardinality(meals),
                            water_ml |-> SumWater(db.mem.water, water)])

FavoriteKeys == <<"name", "calories_per_100g", "protein_per_100g", "carbs_per_100g", "fat_per_100g">>

_save_favorite_food(db, args, id, fault) ==
    LET missing == FirstMissing(args, FavoriteKeys)
    IN  IF missing # Null THEN Raise(db, KeyErrorMsg(missing))
        ELSE
        LET food == [user_id |-> Acting, name |-> args["name"],
                     calories_per_100g |-> args["calories_per_100g"],
                     protein_per_100g |-> args["protein_per_100g"],
                     carbs_per_100g |-> args["carbs_per_100g"],
                     fat_per_100g |-> args["fat_per_100g"],
                     default_serving_g |-> Get(args, "default_serving_g", "100")]
            fid == db.uuid
            f == Flush(AddRow(db, "foods", food), fault)
        IN  IF ~f.ok THEN Raise(f.db, f.exc)
            ELSE Ok(f.db, id, [food_id |-> fid, name |-> food.name])

_get_favorite_foods(db, args, id, fault) ==
    LET q == Execute(db, fault)
    IN  IF ~q.ok THEN Raise(q.db, q.exc)
        ELSE Ok(q.db, id, [foods |-> OwnRows(db, "foods")])

\* UUID(args[key]): KeyError, or ValueError for text that is no UUID
UuidError(args, key) ==
    IF ~Has(args, key) THEN KeyErrorMsg(key)
    ELSE IF ~IsUuid(args[key]) THEN "badly formed hexadecimal UUID string"
    ELSE Null

_update_meal(db, args, id, fault) ==
    LET q == Execute(db, fault)
        found == OwnRow(q.db, "meals", UuidText[args["meal_id"]])
        mid == CHOOSE m \in found : TRUE
        s1 == IF Has(args, "name") THEN SetAttr(q.db, "meals", mid, "name", args["name"]) ELSE q.db
        s2 == IF Has(args, "meal_type")
              THEN SetAttr(s1, "meals", mid, "meal_type", args["meal_type"]) ELSE s1
        f == Flush(s2, FALSE)
    IN  IF UuidError(args, "meal_id") # Null THEN Raise(db, UuidError(args, "meal_id"))
        ELSE IF ~q.ok THEN Raise(q.db, q.exc)
        ELSE IF found = {} THEN NotOk(q.db, id, "Meal not found")
        ELSE IF Has(args, "meal_type") /\ args["meal_type"] \notin MealType
        THEN Raise(s1, "not a valid MealType")
        ELSE IF ~f.ok THEN Raise(f.db, f.exc)
        ELSE Ok(f.db, id, [meal_id |-> mid, name |-> f.db.mem.meals[mid].name,
                           message |-> "Meal updated!"])

_delete_meal(db, args, id, fault) ==
    LET q == Execute(db, fault)
        found == OwnRow(q.db, "meals", UuidText[args["meal_id"]])
        mid == CHOOSE m \in found : TRUE
        f == Flush(DeleteRow(q.db, "meals", mid), FALSE)
    IN  IF UuidError(args, "meal_id") # Null THEN Raise(db, UuidError(args, "meal_id"))
        ELSE IF ~q.ok THEN Raise(q.db, q.exc)
        ELSE IF found = {} THEN NotOk(q.db, id, "Meal not found")
        ELSE IF ~f.ok THEN Raise(f.db, f.exc)
        ELSE Ok(f.db, id, [message |-> "Deleted", name |-> q.db.mem.meals[mid].name])

_update_workout(db, args, id, fault) ==
    LET q == Execute(db, fault)
        found == OwnRow(q.db, "workouts", UuidText[args["workout_id"]])
        wid == CHOOSE w \in found : TRUE
        s1 == IF Has(args, "name") THEN SetAttr(q.db, "workouts", wid, "name", args["name"]) ELSE q.db
        s2 == IF Has(args, "duration_min")
              THEN SetAttr(s1, "workouts", wid, "duration_min", args["duration_min"]) ELSE s1
        f == Flush(s2, FALSE)
    IN  IF UuidError(args, "workout_id") # Null THEN Raise(db, UuidError(args, "workout_id"))
        ELSE IF ~q.ok THEN Raise(q.db, q.exc)
        ELSE IF found = {} THEN NotOk(q.db, id, "Workout not found")
        ELSE IF ~f.ok THEN Raise(f.db, f.exc)
        ELSE Ok(f.db, id, [workout_id |-> wid, name |-> f.db.mem.workouts[wid].name,
                           message |-> "Workout updated!"])

_delete_workout(db, args, id, fault) ==
    LET q == Execute(db, fault)
        found == OwnRow(q.db, "workouts", UuidText[args["workout_id"]])
        wid == CHOOSE w \in found : TRUE
        f == Flush(DeleteRow(q.db, "workouts", wid), FALSE)
    IN  IF UuidError(args, "workout_id") # Null THEN Raise(db, UuidError(args, "workout_id"))
        ELSE IF ~q.ok THEN Raise(q.db, q.exc)
        ELSE IF found = {} THEN NotOk(q.db, id, "Workout not found")
        ELSE IF ~f.ok THEN Raise(f.db, f.exc)
        ELSE Ok(f.db, id, [message |-> "Deleted", name |-> q.db.mem.workouts[wid].name])

_update_workout_plan(db, args, id, fault) ==
    LET q == Execute(db, fault)
        found == OwnRow(q.db, "plans", UuidText[args["plan_id"]])
        pid == CHOOSE w \in found : TRUE
        s1 == IF Has(args, "name") THEN SetAttr(q.db, "plans", pid, "name", args["name"]) ELSE q.db
        s2 == IF Has(args, "is_active")
              THEN SetAttr(s1, "plans", pid, "is_active", args["is_active"]) ELSE s1
        f == Flush(s2, FALSE)
    IN  IF UuidError(args, "plan_id") # Null THEN Raise(db, UuidError(args, "plan_id"))
        ELSE IF ~q.ok THEN Raise(q.db, q.exc)
        ELSE IF found = {} THEN NotOk(q.db, id, "Plan not found")
        ELSE IF ~f.ok THEN Raise(f.db, f.exc)
        ELSE Ok(f.db, id, [plan_id |-> pid, name |-> f.db.mem.plans[pid].name,
                           message |-> "Plan updated!"])

_delete_workout_plan(db, args, id, fault) ==
    LET q == Execute(db, fault)
        found == OwnRow(q.db, "plans", UuidText[args["plan_id"]])
        pid == CHOOSE w \in found : TRUE
        f == Flush(DeleteRow(q.db, "plans", pid), FALSE)
    IN  IF UuidError(args, "plan_id") # Null THEN Raise(db, UuidError(args, "plan_id"))
        ELSE IF ~q.ok THEN Raise(q.db, q.exc)
        ELSE IF found = {} THEN NotOk(q.db, id, "Plan not found")
        ELSE IF ~f.ok THEN Raise(f.db, f.exc)
        ELSE Ok(f.db, id, [message |-> "Deleted", name |-> q.db.mem.plans[pid].name])

\* the week that starts week_offset weeks before this week's Monday holds
\* both days of the model when the offset is 0 and neither otherwise
_get_weekly_summary(db, args, id, fault) ==
    LET week_offset == Get(args, "week_offset", "0")
        q1 == Execute(db, fault)
        q2 == Execute(q1.db, FALSE)
        meals == IF week_offset = "0" THEN OwnRows(db, "meals") ELSE {}
        workouts == IF week_offset = "0" THEN OwnRows(db, "workouts") ELSE {}
    IN  IF ~IsNumber(week_offset) THEN Raise(db, "unsupported type for timedelta days component")
        ELSE IF ~q1.ok THEN Raise(q1.db, q1.exc)
        ELSE IF ~q2.ok THEN Raise(q2.db, q2.exc)
        ELSE Ok(q2.db, id, [total_calories |-> SumRows(db.mem.meals, meals, "total_calories"),
                            total_workouts |-> Cardinality(workouts)])

\* order_by(timestamp.desc()).limit(1): the acting user's latest weight entry
LatestWeight(db) ==
    LET own == OwnRows(db, "weights")
        later(a, b) == \/ (db.txn.weights[a].day = Today /\ db.txn.weights[b].day # Today)
                       \/ (db.txn.weights[a].day = db.txn.weights[b].day /\ a > b)
    IN  {a \in own : \A b \in own \ {a} : later(a, b)}

\* lines 1024-1043: the measurements given are set on the entry and flushed
MeasurementsOn(s0, eid, args, id) ==
    LET s1 == IF Has(args, "body_fat_percent")
              THEN SetAttr(s0, "weights", eid, "body_fat_percent", args["body_fat_percent"]) ELSE s0
        s2 == IF Has(args, "muscle_mass_kg")
              THEN SetAttr(s1, "weights", eid, "muscle_mass_kg", args["muscle_mass_kg"]) ELSE s1
        s3 == IF Has(args, "water_percent")
              THEN SetAttr(s2, "weights", eid, "water_percent", args["water_percent"]) ELSE s2
        Flushed(f) ==
            IF ~f.ok THEN Raise(f.db, f.exc)
            ELSE Ok(f.db, id, [entry_id |-> eid,
                               body_fat_percent |-> f.db.mem.weights[eid].body_fat_percent,
                               muscle_mass_kg |-> f.db.mem.weights[eid].muscle_mass_kg,
                               water_percent |-> f.db.mem.weights[eid].water_percent])
    IN  Flushed(Flush(s3, FALSE))

\* lines 1014-1022: today's entry is reused, else a new one is created
MeasureLatest(s, latest, args, id) ==
    LET old == CHOOSE e \in latest : TRUE
        \* (datetime.utcnow() - entry.timestamp): a timestamp loaded from the
        \* timestamptz column is offset-aware, utcnow() is naive
        aware == latest # {} /\ ~s.mem.weights[old].naive
        fresh == latest = {} \/ s.mem.weights[old].day # Today
        u == s.mem.user
        created == AddRow(s, "weights",
                      [user_id |-> Acting,
                       weight_kg |-> IF Truthy(u.current_weight_kg) THEN u.current_weight_kg ELSE "70",
                       day |-> Today, body_fat_percent |-> Null, muscle_mass_kg |-> Null,
                       water_percent |-> Null, naive |-> TRUE])
    IN  IF aware THEN Raise(s, "can't subtract offset-naive and offset-aware datetimes")
        ELSE IF fresh THEN MeasurementsOn(created, s.uuid, args, id)
        ELSE MeasurementsOn(s, old, args, id)

_add_body_measurements(db, args, id, fault) ==
    LET Queried(q) ==
            IF ~q.ok THEN Raise(q.db, q.exc)
            ELSE MeasureLatest(q.db, LatestWeight(q.db), args, id)
    IN  Queried(Execute(db, fault))

_update_profile(db, args, id, fault) ==
    LET s1 == IF Has(args, "display_name") THEN SetUser(db, "display_name", args["display_name"]) ELSE db
        s2 == IF Has(args, "height_cm") THEN SetUser(s1, "height_cm", args["height_cm"]) ELSE s1
        s3 == IF Has(args, "date_of_birth")
              THEN [s2 EXCEPT !.date_of_birth = args["date_of_birth"]] ELSE s2
        f == Flush(s3, fault)
    IN  IF Has(args, "date_of_birth") /\ ~IsDate(args["date_of_birth"])
        THEN Raise(s2, "time data does not match format '%Y-%m-%d'")
        ELSE IF ~f.ok THEN Raise(f.db, f.exc)
        ELSE Ok(f.db, id, [message |-> "Profile updated!",
                           display_name |-> f.db.mem.user.display_name])

\* faulty variant of HandlerNames: the chain lacks the branch for update_profile
HandlerNamesShort ==
    {"add_meal", "add_workout", "add_workout_plan", "add_water", "add_weight", "set_goal",
     "set_custom_macros", "search_food", "get_daily_summary", "save_favorite_food",
     "get_favorite_foods", "update_meal", "delete_meal", "update_workout", "delete_workout",
     "update_workout_plan", "delete_workout_plan", "get_weekly_summary",
     "add_body_measurements"}
\* ------------------------------------------------------------ the dispatcher
\* the names the if/elif chain of _execute_tool tests
HandlerNames ==
    {"add_meal", "add_workout", "add_workout_plan", "add_water", "add_weight", "set_goal",
     "set_custom_macros", "search_food", "get_daily_summary", "save_favorite_food",
     "get_favorite_foods", "update_meal", "delete_meal", "update_workout", "delete_workout",
     "update_workout_plan", "delete_workout_plan", "get_weekly_summary",
     "add_body_measurements", "update_profile"}

\* the branch of the chain taken for a registered name
Handler(db, tool_call, fault) ==
    LET n == tool_call.name
        a == tool_call.arguments
        i == tool_call.id
    IN  CASE n = "add_meal" -> _add_meal(db, a, i, fault)
          [] n = "add_workout" -> _add_workout(db, a, i, fault)
          [] n = "add_workout_plan" -> _add_workout_plan(db, a, i, fault)
          [] n = "add_water" -> _add_water(db, a, i, fault)
          [] n = "add_weight" -> _add_weight(db, a, i, fault)
          [] n = "set_goal" -> _set_goal(db, a, i, fault)
          [] n = "set_custom_macros" -> _set_custom_macros(db, a, i, fault)
          [] n = "search_food" -> _search_food(db, a, i, fault)
          [] n = "get_daily_summary" -> _get_daily_summary(db, a, i, fault)
          [] n = "save_favorite_food" -> _save_favorite_food(db, a, i, fault)
          [] n = "get_favorite_foods" -> _get_favorite_foods(db, a, i, fault)
          [] n = "update_meal" -> _update_meal(db, a, i, fault)
          [] n = "delete_meal" -> _delete_meal(db, a, i, fault)
          [] n = "update_workout" -> _update_workout(db, a, i, fault)
          [] n = "delete_workout" -> _delete_workout(db, a, i, fault)
          [] n = "update_workout_plan" -> _update_workout_plan(db, a, i, fault)
          [] n = "delete_workout_plan" -> _delete_workout_plan(db, a, i, fault)
          [] n = "get_weekly_summary" -> _get_weekly_summary(db, a, i, fault)
          [] n = "add_body_measurements" -> _add_body_measurements(db, a, i, fault)
          [] OTHER -> _update_profile(db, a, i, fault)

UnknownToolMsg(name) == "Unknown tool: " \o name

\* faulty variant of _execute_tool: the chain without its try/except
ExecuteToolUncaught(db, tool_call, fault) ==
    IF tool_call.name \notin HandlerNames
    THEN NotOk(db, tool_call.id, "Unknown tool: " \o tool_call.name)
    ELSE Handler(db, tool_call, fault)
\* try: <the chain> except Exception as e: ToolResult(success=False, error=str(e))
_execute_tool(db, tool_call, fault) ==
    LET Caught(h) == IF h.raised THEN NotOk(h.db, tool_call.id, h.exc) ELSE h
    IN  IF tool_call.name \notin HandlerNames
        THEN NotOk(db, tool_call.id, UnknownToolMsg(tool_call.name))
        ELSE Caught(Handler(db, tool_call, fault))

\* ------------------------------------------------------------ the catalog
ToolSpec(name, required, enums) == [name |-> name, required |-> required, enums |-> enums]
NoEnums == [f \in {} |-> {}]
CatalogWorkoutTypes == {"strength", "cardio", "hiit", "flexibility", "walking", "running",
                        "cycling", "swimming", "sports", "other"}
ASSISTANT_TOOLS ==
    << ToolSpec("add_meal", {"name", "items"}, [meal_type |-> MealType]),
       ToolSpec("add_workout", {"name", "workout_type", "duration_min"},
                [workout_type |-> CatalogWorkoutTypes]),
       ToolSpec("add_workout_plan", {"name", "workout_type"},
                [workout_type |-> CatalogWorkoutTypes]),
       ToolSpec("add_water", {"amount_ml"}, NoEnums),
       ToolSpec("add_weight", {"weight_kg"}, NoEnums),
       ToolSpec("set_goal", {}, [goal_type |-> {"cut", "maintain", "bulk"},
                 activity_level |-> {"sedentary", "light", "moderate", "active", "very_active"}]),
       ToolSpec("set_custom_macros", {"calories", "protein_g", "carbs_g", "fat_g"}, NoEnums),
       ToolSpec("search_food", {}, NoEnums),
       ToolSpec("get_daily_summary", {}, NoEnums),
       ToolSpec("save_favorite_food", {"name", "calories_per_100g", "protein_per_100g",
                 "carbs_per_100g", "fat_per_100g"}, NoEnums),
       ToolSpec("get_favorite_foods", {}, NoEnums),
       ToolSpec("update_meal", {"meal_id"}, [meal_type |-> MealType]),
       ToolSpec("delete_meal", {"meal_id"}, NoEnums),
       ToolSpec("update_workout", {"workout_id"}, NoEnums),
       ToolSpec("delete_workout", {"workout_id"}, NoEnums),
       ToolSpec("update_workout_plan", {"plan_id"}, NoEnums),
       ToolSpec("delete_workout_plan", {"plan_id"}, NoEnums),
       ToolSpec("get_weekly_summary", {}, NoEnums),
       ToolSpec("add_body_measurements", {}, NoEnums),
       ToolSpec("update_profile", {}, NoEnums) >>
CatalogNames == {ASSISTANT_TOOLS[k].name : k \in DOMAIN ASSISTANT_TOOLS}
SpecOf(name) == ASSISTANT_TOOLS[CHOOSE k \in DOMAIN ASSISTANT_TOOLS : ASSISTANT_TOOLS[k].name = name]
\* the call omits a required field or gives a value outside a declared enum
ViolatesSchema(tool_call) ==
    /\ tool_call.name \in CatalogNames
    /\ LET sp == SpecOf(tool_call.name)
       IN  \/ \E f \in sp.required : ~Has(tool_call.arguments, f)
           \/ \E f \in DOMAIN sp.enums :
                 Has(tool_call.arguments, f) /\ tool_call.arguments[f] \notin sp.enums[f]

\* ------------------------------------------------- what the provider may return
ToolCall(id, name, arguments) == [id |-> id, name |-> name, arguments |-> arguments]
Shape(name, arguments) == [name |-> name, arguments |-> arguments]

Egg == [name |-> "egg", grams |-> "72", calories |-> "72", protein_g |-> "1",
        carbs_g |-> "1", fat_g |-> "1"]

\* argument maps per tool: well-formed ones, ones that omit a field, carry a
\* value outside an enum, a JSON string for a number, or another user's row id
AllShapes ==
    << Shape("add_water", [amount_ml |-> "500"]),
       Shape("add_water", [amount_ml |-> "abc"]),
       Shape("set_goal", [goal_type |-> "cut", activity_level |-> "bogus"]),
       Shape("set_custom_macros", [calories |-> "2000"]),
       Shape("update_meal", [meal_id |-> "uuid-1", name |-> "Porridge", meal_type |-> "brunch"]),
       Shape("update_profile", [display_name |-> "Bob", date_of_birth |-> "not-a-date"]),
       Shape("update_meal", [meal_id |-> "uuid-1", name |-> "Porridge"]),
       Shape("delete_meal", [meal_id |-> "uuid-1"]),
       Shape("update_meal", [meal_id |-> "uuid-2", name |-> "Porridge"]),
       Shape("delete_workout", [workout_id |-> "uuid-2"]),
       Shape("update_workout_plan", [plan_id |-> "uuid-2", name |-> "Legs"]),
       Shape("levitate", EmptyArgs),
       Shape("update_profile", [display_name |-> "Bob"]),
       Shape("set_goal", [goal_type |-> "cut"]),
       \* ---- the shapes below are dispatched one at a time (SpecDispatch)
       Shape("add_meal", [name |-> "Lunch", items |-> <<Egg>>]),
       Shape("add_meal", [name |-> "Lunch"]),
       Shape("add_meal", [items |-> <<Egg>>]),
       Shape("add_meal", [name |-> "Lunch", items |-> <<Egg>>, meal_type |-> "brunch"]),
       Shape("add_workout", [name |-> "Run", workout_type |-> "running", duration_min |-> "25"]),
       Shape("add_workout", [name |-> "Run", duration_min |-> "25"]),
       Shape("add_workout", [name |-> "Run", workout_type |-> "yoga", duration_min |-> "25"]),
       Shape("add_workout", [name |-> "Run", workout_type |-> "running"]),
       Shape("add_workout", [name |-> "Run", workout_type |-> "running", duration_min |-> "abc"]),
       Shape("add_workout_plan", [name |-> "Push Day", workout_type |-> "strength"]),
       Shape("add_workout_plan", [name |-> "Push Day", workout_type |-> "yoga"]),
       Shape("add_workout_plan", [name |-> "Push Day"]),
       Shape("add_workout_plan", [workout_type |-> "strength"]),
       Shape("add_water", EmptyArgs),
       Shape("add_water", [amount_ml |-> "500", timestamp |-> "yesterday"]),
       Shape("add_water", [amount_ml |-> "500", timestamp |-> "2024-01-01T08:00:00"]),
       Shape("add_weight", [weight_kg |-> "80"]),
       Shape("add_weight", EmptyArgs),
       Shape("add_weight", [weight_kg |-> "abc"]),
       Shape("set_goal", [goal_type |-> "shred"]),
       Shape("set_goal", EmptyArgs),
       Shape("set_custom_macros", [calories |-> "2000", protein_g |-> "100",
                                   carbs_g |-> "180", fat_g |-> "70"]),
       Shape("set_custom_macros", EmptyArgs),
       Shape("search_food", [query |-> "oats"]),
       Shape("search_food", [barcode |-> "737628064502"]),
       Shape("search_food", [barcode |-> "000"]),
       Shape("search_food", EmptyArgs),
       Shape("get_daily_summary", EmptyArgs),
       Shape("get_daily_summary", [date |-> "2024-01-01"]),
       Shape("get_daily_summary", [date |-> "tomorrow"]),
       Shape("save_favorite_food", [name |-> "Oats", calories_per_100g |-> "100",
                protein_per_100g |-> "1", carbs_per_100g |-> "72", fat_per_100g |-> "1"]),
       Shape("save_favorite_food", [name |-> "Oats"]),
       Shape("get_favorite_foods", EmptyArgs),
       Shape("update_meal", [name |-> "Porridge"]),
       Shape("update_meal", [meal_id |-> "uuid-2", meal_type |-> "brunch"]),
       Shape("update_meal", [meal_id |-> "not-a-uuid"]),
       Shape("delete_meal", [meal_id |-> "uuid-2"]),
       Shape("delete_meal", [meal_id |-> "uuid-9"]),
       Shape("delete_meal", EmptyArgs),
       Shape("update_workout", [workout_id |-> "uuid-1", name |-> "Jog"]),
       Shape("update_workout", [workout_id |-> "uuid-2", name |-> "Jog"]),
       Shape("update_workout", EmptyArgs),
       Shape("delete_workout", [workout_id |-> "uuid-1"]),
       Shape("delete_workout", EmptyArgs),
       Shape("update_workout_plan", [plan_id |-> "uuid-1", name |-> "Legs"]),
       Shape("update_workout_plan", EmptyArgs),
       Shape("delete_workout_plan", [plan_id |-> "uuid-1"]),
       Shape("delete_workout_plan", [plan_id |-> "uuid-2"]),
       Shape("delete_workout_plan", EmptyArgs),
       Shape("get_weekly_summary", EmptyArgs),
       Shape("get_weekly_summary", [week_offset |-> "abc"]),
       Shape("add_body_measurements", [body_fat_percent |-> "25"]),
       Shape("add_body_measurements", [body_fat_percent |-> "abc"]),
       Shape("update_profile", [height_cm |-> "tall"]),
       Shape("update_profile", [date_of_birth |-> "1990-05-17", height_cm |-> "180"]) >>

\* the shapes a whole turn is built from
TurnShapeCount == 14
TurnShapes == {AllShapes[k] : k \in 1..TurnShapeCount}

\* vendor tool-call ids, unique within a completion
CallId(k) == CASE k = 1 -> "toolu_1" [] k = 2 -> "toolu_2" [] k = 3 -> "toolu_3" [] OTHER -> "toolu_4"
CallLists ==
    UNION {{[k \in 1..n |-> ToolCall(CallId(k), sh[k].name, sh[k].arguments)] :
              sh \in [1..n -> TurnShapes]} : n \in 0..MaxCalls}

\* ------------------------------------------------- ai_service (AIService)
\* settings: the preferred provider and the two API keys
Settings(ai_provider, anthropic_api_key, openai_api_key) ==
    [ai_provider |-> ai_provider, anthropic_api_key |-> anthropic_api_key,
     openai_api_key |-> openai_api_key]
claude_model == "claude-sonnet-4-20250514"
openai_model == "gpt-4-turbo-preview"

\* settings.ai_provider.lower().strip()
LowerStrip ==
    [v \in {"anthropic", "openai", " OpenAI ", "Anthropic", "gemini", ""} |->
        CASE v \in {"anthropic", "Anthropic"} -> "anthropic"
          [] v \in {"openai", " OpenAI "} -> "openai"
          [] OTHER -> v]

\* AIService.__init__: a client exists for a vendor iff its key is truthy
anthropic_client(settings) == IF Truthy(settings.anthropic_api_key) THEN "client" ELSE Null
openai_client(settings) == IF Truthy(settings.openai_api_key) THEN "client" ELSE Null

\* faulty variant of _select_provider: the preference is ignored
SelectAnthropicFirst(settings) ==
    IF anthropic_client(settings) # Null THEN "anthropic"
    ELSE IF openai_client(settings) # Null THEN "openai"
    ELSE Null
\* faulty variant of _select_provider: the credentials are ignored
SelectWithoutCredentials(settings) ==
    IF LowerStrip[settings.ai_provider] = "openai" THEN "openai" ELSE "anthropic"

_select_provider(settings) ==
    LET preferred == LowerStrip[settings.ai_provider]
    IN  IF preferred = "anthropic" /\ anthropic_client(settings) # Null THEN "anthropic"
        ELSE IF preferred = "openai" /\ openai_client(settings) # Null THEN "openai"
        ELSE IF anthropic_client(settings) # Null THEN "anthropic"
        ELSE IF openai_client(settings) # Null THEN "openai"
        ELSE Null

\* f"{value}" of a context value
Str(v) == IF v = Null THEN "None" ELSE v

\* the fields _build_context_message looks for, in its order, with the text
\* it puts around each value
ContextFields ==
    << [key |-> "name", label |-> "- Name: ", unit |-> ""],
       [key |-> "goal_type", label |-> "- Goal: ", unit |-> ""],
       [key |-> "calories_target", label |-> "- Daily calorie target: ", unit |-> " kcal"],
       [key |-> "protein_target", label |-> "- Daily protein target: ", unit |-> "g"],
       [key |-> "calories_consumed_today", label |-> "- Calories consumed today: ",
        unit |-> " kcal"],
       [key |-> "water_today_ml", label |-> "- Water today: ", unit |-> "ml"] >>

\* the lines after the heading: one for every field that is a key of the map
ContextLines(user_context) ==
    LET present(f) == Has(user_context, f.key)
        kept == SelectSeq(ContextFields, present)
    IN  [k \in DOMAIN kept |->
            [key |-> kept[k].key,
             text |-> kept[k].label \o Str(user_context[kept[k].key]) \o kept[k].unit]]

RECURSIVE JoinLines(_)
JoinLines(lines) ==
    IF lines = <<>> THEN ""
    ELSE IF Len(lines) = 1 THEN lines[1].text
    ELSE lines[1].text \o "\n" \o JoinLines(Tail(lines))

_build_context_message(user_context) ==
    IF ContextLines(user_context) = <<>> THEN "Current user context:"
    ELSE "Current user context:" \o "\n" \o JoinLines(ContextLines(user_context))

\* str(datetime.now().timestamp())
MintedConversationId == "1704182400.0"

\* conversation_history[-10:]
ContextWindow == 10
LastN(seq, n) == IF Len(seq) <= n THEN seq ELSE SubSeq(seq, Len(seq) - n + 1, Len(seq))

\* "\n".join(text blocks).strip()
Strip(t) == IF t \in {Null, "", " "} THEN "" ELSE t

\* what the vendor does with the request: it answers with a text (or none)
\* and tool calls, the call raises (network, auth), or the answer cannot be
\* translated (json.loads of the arguments raises)
VendorOk(text, calls) == [kind |-> "ok", text |-> text, tool_calls |-> calls, error |-> Null]
VendorError == [kind |-> "error", text |-> Null, tool_calls |-> <<>>,
                error |-> "Connection error."]
VendorMalformed == [kind |-> "malformed", text |-> Null, tool_calls |-> <<>>,
                    error |-> "Expecting value: line 1 column 1 (char 0)"]

NotConfiguredMsg == "AI service is not configured. Please set ANTHROPIC_API_KEY or OPENAI_API_KEY."
PlaceholderMsg == "I've processed your request."
ApologyMsg(e) == "Sorry, I encountered an error: " \o e

ChatResponse(message, tool_calls, conversation_id, model_used, tokens_used) ==
    [message |-> message, tool_calls |-> tool_calls, conversation_id |-> conversation_id,
     model_used |-> model_used, tokens_used |-> tokens_used]

\* the outcome of chat(): the response it returned (or that it raised), whether
\* a vendor was called and with which history and context message
ChatOutcome(provider, called, raised, sent, context_msg, response) ==
    [provider |-> provider, called |-> called, raised |-> raised, sent_history |-> sent,
     context_msg |-> context_msg, response |-> response]
NoChatResponse == ChatResponse(Null, <<>>, Null, Null, Null)

\* faulty variant of ChatCaught: the vendor's exception leaves chat()
ChatUncaught(provider, sent, context_msg, conversation_id, e) ==
    ChatOutcome(provider, TRUE, TRUE, sent, context_msg, NoChatResponse)

\* lines 688-694: except Exception as e
ChatCaught(provider, sent, context_msg, conversation_id, e) ==
    ChatOutcome(provider, TRUE, FALSE, sent, context_msg,
                ChatResponse(ApologyMsg(e), <<>>, conversation_id, openai_model, Null))

chat(settings, vendor, user_message, conversation_history, user_context, conversation_id) ==
    LET conv == IF Truthy(conversation_id) THEN conversation_id ELSE MintedConversationId
        sent == LastN(conversation_history, ContextWindow)
        context_msg == IF DOMAIN user_context = {} THEN Null    \* if user_context:
                       ELSE _build_context_message(user_context)
        Selected(provider) ==
            IF provider = Null
            THEN ChatOutcome(Null, FALSE, FALSE, <<>>, Null,
                             ChatResponse(NotConfiguredMsg, <<>>, conv, "none", Null))
            ELSE IF vendor.kind # "ok"
            THEN ChatCaught(provider, sent, context_msg, conv, vendor.error)
            ELSE IF provider = "anthropic"
            THEN ChatOutcome(provider, TRUE, FALSE, sent, context_msg,
                    ChatResponse(IF Strip(vendor.text) = "" /\ vendor.tool_calls # <<>>
                                 THEN PlaceholderMsg ELSE Strip(vendor.text),
                                 vendor.tool_calls, conv, claude_model, "100"))
            ELSE ChatOutcome(provider, TRUE, FALSE, sent, context_msg,
                    ChatResponse(IF Truthy(vendor.text) THEN vendor.text ELSE "",
                                 vendor.tool_calls, conv, openai_model, "100"))
    IN  Selected(_select_provider(settings))

\* ------------------------------------------------------------------ the state
VARIABLES
    store,            \* the committed database
    db,               \* the request's session (get_db)
    pc,               \* where chat_with_assistant stands
    request,          \* ChatRequest
    history,          \* conversation_history handed to ai_service.chat
    response,         \* the ChatResponse ai_service.chat returned
    idx,              \* tool calls dispatched so far
    tool_results,     \* the list built by the dispatch loop
    created_entries,
    reply,            \* the ChatResponse the route returned (when status = "200")
    status,           \* "none", "200", "500" (an exception left the route), "crashed"
    trace,            \* per dispatched call: what its handler did (history)
    user_context,     \* the map the route handed to ai_service.chat
    llm,              \* what ai_service.chat did: settings, vendor, ChatOutcome
    calc,             \* a call of a service function: its name, input and output
    magic_links,      \* auth_service._magic_links: token -> email, expires
    now,              \* the clock, in minutes
    auth_log,         \* the create and verify calls made so far (history)
    macro_targets,    \* the committed macro_targets table: row id -> row
    sessions          \* the sessions of concurrent requests that upsert targets

\* the chat turn, and what lives beside it
turn == <<store, db, pc, request, history, response, idx, tool_results, created_entries,
          reply, status, trace, user_context, llm>>
upserts == <<macro_targets, sessions>>
aside == <<calc, magic_links, now, auth_log, upserts>>
vars == <<turn, aside>>

NoCalc == [fn |-> Null, input |-> Null, done |-> FALSE, output |-> Null]
NoLinks == [t \in {} |-> Null]
AuthIdle == magic_links = NoLinks /\ now = 0 /\ auth_log = <<>>
NoSessions == [r \in {} |-> Null]
UpsertsIdle == macro_targets = EmptyTable /\ sessions = NoSessions
AsideIdle == calc = NoCalc /\ AuthIdle /\ UpsertsIdle

HistoryLimit == 20
NoRequest == [message |-> Null, conversation_id |-> Null, include_context |-> FALSE]
NoResponse == [message |-> Null, tool_calls |-> <<>>, conversation_id |-> Null,
               model_used |-> Null, tokens_used |-> Null]
NoReply == [message |-> Null, tool_calls |-> <<>>, tool_results |-> <<>>,
            conversation_id |-> Null, created_entries |-> <<>>]

ChatMessage(role, content, conv, calls) ==
    [user_id |-> Acting, role |-> role, content |-> content, conversation_id |-> conv,
     tool_calls |-> calls, model_used |-> Null, tokens_used |-> Null]

\* faulty variant of AssistantMessage: the row is stored outside any conversation
AssistantMessageUnthreaded(resp) ==
    [ChatMessage("assistant", resp.message, Null, resp.tool_calls)
        EXCEPT !.model_used = resp.model_used, !.tokens_used = resp.tokens_used]

\* lines 139-148: the assistant's row also carries the model and the tokens
AssistantMessage(resp) ==
    [ChatMessage("assistant", resp.message, resp.conversation_id, resp.tool_calls)
        EXCEPT !.model_used = resp.model_used, !.tokens_used = resp.tokens_used]

NoContext == [k \in {} |-> Null]
NoSettings == Settings("", Null, Null)
NoLlm == [settings |-> NoSettings, vendor |-> VendorError,
          outcome |-> ChatOutcome(Null, FALSE, FALSE, <<>>, Null, NoChatResponse)]

\* an earlier exchange of conversation "conv-1", already committed
EarlierTurns ==
    << ChatMessage("user", "hello", "conv-1", <<>>),
       ChatMessage("assistant", "Hi Ann!", "conv-1", <<>>) >>

Requests ==
    {[message |-> "log it", conversation_id |-> c, include_context |-> TRUE] :
        c \in {Null, "conv-1"}}

Init ==
    /\ \E h \in {Null, "180"}, t \in BOOLEAN, c \in {<<>>, EarlierTurns} :
          store = [InitialData(h, t) EXCEPT !.chat = c]
    /\ db = NewSession(store, FirstFreeId)
    /\ pc = "idle"
    /\ request = NoRequest
    /\ history = <<>>
    /\ response = NoResponse
    /\ idx = 0
    /\ tool_results = <<>>
    /\ created_entries = <<>>
    /\ reply = NoReply
    /\ status = "none"
    /\ trace = <<>>
    /\ user_context = NoContext
    /\ llm = NoLlm
    /\ AsideIdle

\* FastAPI resolves get_db (a session on the committed data) and
\* get_current_user (one select) and calls the route
ReceiveFrom(requests) ==
    /\ pc = "idle"
    /\ \E r \in requests : request' = r
    /\ db' = Execute(NewSession(store, db.uuid), FALSE).db
    /\ pc' = "context"
    /\ UNCHANGED <<store, history, response, idx, tool_results, created_entries, reply,
                   status, trace, user_context, llm, aside>>

ReceiveRequest == ReceiveFrom(Requests)

\* faulty variant of LoadHistory: the conversation is not looked at
LoadAnyConversation(data, conv) ==
    [k \in DOMAIN data.chat |-> [role |-> data.chat[k].role, content |-> data.chat[k].content]]

FirstN(seq, n) == IF Len(seq) <= n THEN seq ELSE SubSeq(seq, 1, n)

\* lines 50-70: the stored turns of the conversation, oldest first, LIMIT 20,
\* then the user/assistant ones with non-blank content
LoadHistory(data, conv) ==
    LET mine(m) == m.user_id = Acting /\ m.conversation_id = conv
        shown(m) == /\ m.role \in {"user", "assistant"}
                    /\ Truthy(m.content) /\ Strip(m.content) # ""
        rows == FirstN(SelectSeq(data.chat, mine), HistoryLimit)
        kept == SelectSeq(rows, shown)
    IN  [k \in DOMAIN kept |-> [role |-> kept[k].role, content |-> kept[k].content]]

\* lines 95-102: the map of the user's state; every key is always present
RouteContext(s) ==
    LET meals == {i \in OwnRows(s, "meals") : s.txn.meals[i].day = Today}
        water == {i \in OwnRows(s, "water") : s.txn.water[i].day = Today}
        targets == OwnRows(s, "targets")
        Row(t) == s.txn.targets[CHOOSE i \in t : TRUE]
    IN  [name |-> IF Truthy(s.txn.user.display_name) THEN s.txn.user.display_name
                  ELSE "User",
         goal_type |-> s.txn.user.goal_type,
         calories_target |-> IF targets = {} THEN Null ELSE Row(targets).calories,
         protein_target |-> IF targets = {} THEN Null ELSE Row(targets).protein_g,
         calories_consumed_today |-> ToString(SumRows(s.txn.meals, meals, "total_calories")),
         water_today_ml |-> ToString(SumWater(s.txn.water, water))]

\* lines 50-102: history (one select) and the user context (three selects)
BuildContext ==
    /\ pc = "context"
    /\ \E fault \in BOOLEAN :
          LET wantsHistory == request.include_context /\ Truthy(request.conversation_id)
              q0 == IF wantsHistory THEN Execute(db, fault) ELSE [ok |-> TRUE, db |-> db, exc |-> Null]
              q1 == Execute(q0.db, fault /\ ~wantsHistory)
              q2 == Execute(q1.db, FALSE)
              q3 == Execute(q2.db, FALSE)
          IN  IF q0.ok /\ q1.ok
              THEN /\ db' = q3.db
                   /\ history' = IF wantsHistory THEN LoadHistory(db.txn, request.conversation_id)
                                 ELSE <<>>
                   /\ user_context' = RouteContext(db)
                   /\ pc' = "chat"
              ELSE /\ db' = (IF q0.ok THEN q1.db ELSE q0.db)
                   /\ history' = <<>>
                   /\ user_context' = NoContext
                   /\ pc' = "raise"
    /\ UNCHANGED <<store, request, response, idx, tool_results, created_entries, reply,
                   status, trace, llm, aside>>

\* the configurations and vendor behaviours of a turn
Keys == {Null, "", "sk-key"}
AllSettings ==
    {Settings(p, a, o) : p \in DOMAIN LowerStrip, a \in Keys, o \in Keys}
DefaultSettings == Settings("anthropic", "sk-key", Null)
OpenAiSettings == Settings("openai", Null, "sk-key")
Env(settings, vendor) == [settings |-> settings, vendor |-> vendor]

\* a whole turn: the configured vendor answers with a text and any tool calls;
\* besides, a text-less answer, a failing vendor and a missing configuration
TurnEnvironments ==
    {Env(DefaultSettings, VendorOk("Logged.", calls)) : calls \in CallLists}
    \cup {Env(st, VendorOk(Null, <<ToolCall(CallId(1), "add_water", [amount_ml |-> "500"])>>)) :
             st \in {DefaultSettings, OpenAiSettings}}
    \cup {Env(DefaultSettings, VendorError), Env(OpenAiSettings, VendorMalformed),
          Env(NoSettings, VendorError)}

\* lines 104-110: response = await ai_service.chat(...)
CompleteFrom(envs) ==
    /\ pc = "chat"
    /\ \E env \in envs :
          LET Returned(out) ==
                 /\ llm' = [settings |-> env.settings, vendor |-> env.vendor, outcome |-> out]
                 /\ response' = out.response
                 /\ pc' = IF out.raised THEN "raise" ELSE "save_user"
          IN  Returned(chat(env.settings, env.vendor, request.message, history,
                            user_context, request.conversation_id))
    /\ UNCHANGED <<store, db, request, history, idx, tool_results, created_entries, reply,
                   status, trace, user_context, aside>>

Complete == CompleteFrom(TurnEnvironments)

\* faulty variant of AddMessage: the row is not added
AddMessageDropped(s, msg) == s
\* db.add(ChatMessage(...)): the row joins the session, unflushed
AddMessage(s, msg) == [s EXCEPT !.mem.chat = Append(@, msg)]

\* lines 112-124
SaveUserMessage ==
    /\ pc = "save_user"
    /\ db' = AddMessage(db, ChatMessage("user", request.message, response.conversation_id, <<>>))
    /\ idx' = 0
    /\ tool_results' = <<>>
    /\ created_entries' = <<>>
    /\ pc' = "dispatch"
    /\ UNCHANGED <<store, request, history, response, reply, status, trace, user_context,
                   llm, aside>>

\* bool(result.result): None, [] and {} are falsy
ResultTruthy(res) ==
    /\ "is_none" \notin DOMAIN res
    /\ ~("list" \in DOMAIN res /\ res.list = <<>>)

\* faulty variant of AppendResult: the result is put in front of the list
PrependResult(results, res) == <<res>> \o results
\* tool_results.append(result)
AppendResult(results, res) == Append(results, res)

\* what the handler of one call did, kept beside the results
TraceEntry(before, tc, fault, out) ==
    LET known == tc.name \in HandlerNames
        Entry(h) ==
            [id |-> tc.id, name |-> tc.name,
             handler_raised |-> known /\ h.raised,
             exc |-> IF known /\ h.raised THEN h.exc ELSE Null,
             escaped |-> out.raised,
             was_active |-> before.state = "active",
             broke |-> before.state = "active" /\ out.db.state # "active",
             ops |-> out.db.ops - before.ops,
             changed |-> out.db.mem # before.mem \/ out.db.txn # before.txn]
    IN  Entry(Handler(before, tc, fault))

\* lines 126-136: one iteration of the loop over response.tool_calls
DispatchTool ==
    /\ pc = "dispatch"
    /\ idx < Len(response.tool_calls)
    /\ \E fault \in BOOLEAN :
          LET Iteration(tool_call, result) ==
                 /\ db' = result.db
                 /\ trace' = Append(trace, TraceEntry(db, tool_call, fault, result))
                 /\ IF result.raised
                    THEN /\ pc' = "raise"
                         /\ UNCHANGED <<idx, tool_results, created_entries>>
                    ELSE /\ pc' = "dispatch"
                         /\ idx' = idx + 1
                         /\ tool_results' = AppendResult(tool_results, result.result)
                         /\ created_entries' =
                               IF result.result.success /\ ResultTruthy(result.result.result)
                               THEN Append(created_entries,
                                           [type |-> tool_call.name,
                                            data |-> result.result.result])
                               ELSE created_entries
          IN  Iteration(response.tool_calls[idx + 1],
                        _execute_tool(db, response.tool_calls[idx + 1], fault))
    /\ UNCHANGED <<store, request, history, response, reply, status, user_context, llm,
                   aside>>

\* lines 138-151: the assistant turn is added and the session flushed
SaveAssistantMessage ==
    /\ pc = "dispatch"
    /\ idx = Len(response.tool_calls)
    /\ \E fault \in BOOLEAN :
          LET msg == AssistantMessage(response)
              f == Flush(AddMessage(db, msg), fault)
          IN  /\ db' = f.db
              /\ pc' = IF f.ok THEN "respond" ELSE "raise"
    /\ UNCHANGED <<store, request, history, response, idx, tool_results, created_entries,
                   reply, status, trace, user_context, llm, aside>>

\* lines 153-163: the ChatResponse the route returns
Respond ==
    /\ pc = "respond"
    /\ reply' = [message |-> response.message, tool_calls |-> response.tool_calls,
                 tool_results |-> tool_results,
                 conversation_id |-> response.conversation_id,
                 created_entries |-> created_entries]
    /\ pc' = "commit"
    /\ UNCHANGED <<store, db, request, history, response, idx, tool_results,
                   created_entries, status, trace, user_context, llm, aside>>

\* rows read back from the database carry offset-aware timestamps
Stored(data) ==
    [data EXCEPT !.weights = [i \in DOMAIN @ |-> [@[i] EXCEPT !.naive = FALSE]]]

\* get_db after the route returned: await session.commit()
Commit ==
    /\ pc = "commit"
    /\ LET f == Flush(db, FALSE)
       IN  /\ db' = f.db
           /\ store' = IF f.ok THEN Stored(f.db.txn) ELSE store
           /\ status' = IF f.ok THEN "200" ELSE "500"
    /\ pc' = "done"
    /\ UNCHANGED <<request, history, response, idx, tool_results, created_entries, reply, trace,
                   user_context, llm, aside>>

\* get_db when an exception left the route: await session.rollback(); raise
Abort ==
    /\ pc = "raise"
    /\ db' = RolledBack(db)
    /\ status' = "500"
    /\ pc' = "done"
    /\ UNCHANGED <<store, request, history, response, idx, tool_results, created_entries,
                   reply, trace, user_context, llm, aside>>

\* the process dies mid-request: the open transaction is never committed
Crash ==
    /\ pc \in {"context", "chat", "save_user", "dispatch", "respond", "commit", "raise"}
    /\ db' = RolledBack(db)
    /\ status' = "crashed"
    /\ pc' = "done"
    /\ UNCHANGED <<store, request, history, response, idx, tool_results, created_entries,
                   reply, trace, user_context, llm, aside>>

Next ==
    \/ ReceiveRequest
    \/ BuildContext
    \/ Complete
    \/ SaveUserMessage
    \/ DispatchTool
    \/ SaveAssistantMessage
    \/ Respond
    \/ Commit
    \/ Abort
    \/ Crash

Spec == Init /\ [][Next]_vars

\* ---- one call dispatched on a session as the dispatch loop can hand it over:
\* the session of a request that reached the loop, healthy or already inactive
SessionAtDispatch(data) ==
    AddMessage(Execute(Execute(Execute(Execute(NewSession(data, FirstFreeId), FALSE).db,
                                       FALSE).db, FALSE).db, FALSE).db,
               ChatMessage("user", "log it", MintedConversationId, <<>>))

InitDispatch ==
    /\ \E h \in {Null, "180"}, t \in BOOLEAN : store = InitialData(h, t)
    /\ db = SessionAtDispatch(store)
    /\ pc = "dispatch"
    /\ request = [message |-> "log it", conversation_id |-> Null, include_context |-> TRUE]
    /\ history = <<>>
    /\ \E first \in 1..2, k \in DOMAIN AllShapes :
          response = [message |-> "Logged.",
                      tool_calls |-> <<ToolCall(CallId(1), AllShapes[first].name,
                                                AllShapes[first].arguments),
                                       ToolCall(CallId(2), AllShapes[k].name,
                                                AllShapes[k].arguments)>>,
                      conversation_id |-> MintedConversationId,
                      model_used |-> claude_model, tokens_used |-> "100"]
    /\ idx = 0
    /\ tool_results = <<>>
    /\ created_entries = <<>>
    /\ reply = NoReply
    /\ status = "none"
    /\ trace = <<>>
    /\ user_context = RouteContext(NewSession(store, FirstFreeId))
    /\ llm = [settings |-> DefaultSettings, vendor |-> VendorOk("Logged.", response.tool_calls),
              outcome |-> ChatOutcome("anthropic", TRUE, FALSE, <<>>,
                                      _build_context_message(user_context), response)]
    /\ AsideIdle

NextDispatch == DispatchTool

SpecDispatch == InitDispatch /\ [][NextDispatch]_vars

\* ---- the same two calls, and the rest of the turn up to get_db's commit
NextTurnEnd ==
    \/ DispatchTool
    \/ SaveAssistantMessage
    \/ Respond
    \/ Commit
    \/ Abort

SpecTurnEnd == InitDispatch /\ [][NextTurnEnd]_vars

\* ---- the completion step alone, over every configuration, vendor answer,
\* user state and stored conversation
MaxTurns == 22      \* the longest stored conversation
ConversationLengths == {0, 3, 12, MaxTurns}

\* conversation "conv-1" as earlier turns stored it, oldest first: user and
\* assistant alternate; the assistant's second turn had no text
Conversation(n) ==
    [k \in 1..n |->
        ChatMessage(IF k % 2 = 1 THEN "user" ELSE "assistant",
                    IF k = 4 THEN "" ELSE "turn " \o ToString(k), "conv-1", <<>>)]
OtherConversation == <<ChatMessage("user", "elsewhere", "conv-2", <<>>)>>

AllVendors ==
    {VendorOk(text, calls) :
        text \in {"Logged.", Null, "", " "},
        calls \in {<<>>, <<ToolCall(CallId(1), "add_water", [amount_ml |-> "500"])>>,
                   <<ToolCall(CallId(1), "levitate", EmptyArgs)>>}}
    \cup {VendorError, VendorMalformed}
AllEnvironments == {Env(st, v) : st \in AllSettings, v \in AllVendors}

InitChat ==
    /\ \E t \in BOOLEAN, n \in {Null, "Ann"}, g \in {"maintain", "cut"},
          len \in ConversationLengths :
          store = [InitialData("180", t) EXCEPT !.user.display_name = n, !.user.goal_type = g,
                                                !.chat = OtherConversation \o Conversation(len)]
    /\ db = NewSession(store, FirstFreeId)
    /\ pc = "idle"
    /\ request = NoRequest
    /\ history = <<>>
    /\ response = NoResponse
    /\ idx = 0
    /\ tool_results = <<>>
    /\ created_entries = <<>>
    /\ reply = NoReply
    /\ status = "none"
    /\ trace = <<>>
    /\ user_context = NoContext
    /\ llm = NoLlm
    /\ AsideIdle

\* requests with and without history, with no, an empty and a known id
AllRequests ==
    {[message |-> "log it", conversation_id |-> c, include_context |-> i] :
        c \in {Null, "", "conv-1"}, i \in BOOLEAN}

ReceiveChat == ReceiveFrom(AllRequests)
CompleteChat == CompleteFrom(AllEnvironments)

NextChat ==
    \/ ReceiveChat
    \/ BuildContext
    \/ CompleteChat

SpecChat == InitChat /\ [][NextChat]_vars

\* ------------------------------------------ macro_calculator (MacroCalculator)
\* round(n / d): Python rounds halves to the even neighbour
RoundHalfEven(n, d) ==
    LET q == n \div d
        r == n % d
    IN  IF 2 * r > d \/ (2 * r = d /\ q % 2 = 1) THEN q + 1 ELSE q
Max(a, b) == IF a >= b THEN a ELSE b

\* multipliers in thousandths; any other level counts as 1.55
ACTIVITY_MULTIPLIERS ==
    [sedentary |-> 1200, light |-> 1375, moderate |-> 1550, active |-> 1725,
     very_active |-> 1900]
CALORIES_PER_KG == 7700
DEFAULT_PROTEIN_PER_KG == 18        \* tenths of a gram per kg
MIN_PROTEIN_PERCENT == 10           \* percent
FAT_PERCENT == 25                   \* percent
MinimumCalories == 1200

\* weight in kg, height in cm, age in years: whole numbers; grams are counted
\* in tenths, as round(x, 1) leaves them. fiber_g, a rounded product of binary
\* floats that no other value depends on, is left out of the result.
calculate_bmr(sex, weight_kg, height_cm, age) ==
    RoundHalfEven(1000 * weight_kg + 625 * height_cm - 500 * age
                  + (IF sex = "male" THEN 500 ELSE 0 - 16100), 100)

calculate_tdee(bmr, activity_level) ==
    RoundHalfEven(bmr * (IF activity_level \in DOMAIN ACTIVITY_MULTIPLIERS
                         THEN ACTIVITY_MULTIPLIERS[activity_level] ELSE 1550), 1000)

\* rate in tenths of a kg per week; returns (target_calories, deficit_or_surplus)
calculate_target_calories(tdee, goal_type, rate) ==
    LET daily_adjustment == RoundHalfEven(CALORIES_PER_KG * rate, 70)
        surplus == RoundHalfEven(daily_adjustment, 2)
    IN  IF goal_type = "maintain" THEN <<tdee, 0>>
        ELSE IF goal_type = "cut"
        THEN <<Max(tdee - daily_adjustment, MinimumCalories), 0 - daily_adjustment>>
        ELSE <<tdee + surplus, surplus>>

calculate_macros(sex, weight_kg, height_cm, age, activity_level, goal_type, rate) ==
    LET bmr == calculate_bmr(sex, weight_kg, height_cm, age)
        tdee == calculate_tdee(bmr, activity_level)
        Distributed(target, adjustment) ==
            LET by_weight == weight_kg * DEFAULT_PROTEIN_PER_KG
                \* protein_g * 4 < target_calories * 0.10
                protein == IF 4 * by_weight * 100 < target * MIN_PROTEIN_PERCENT * 10
                           THEN RoundHalfEven(target * MIN_PROTEIN_PERCENT, 40)
                           ELSE by_weight
                fat == RoundHalfEven(target * FAT_PERCENT * 10, 900)
                \* (target - 4 * protein_g - target * 0.25) / 4, in tenths of a gram
                carbs == Max(RoundHalfEven((100 - FAT_PERCENT) * target * 10 - 400 * protein,
                                           400), 0)
            IN  [calories |-> target, protein_g |-> protein, carbs_g |-> carbs, fat_g |-> fat,
                 bmr |-> bmr, tdee |-> tdee, deficit_or_surplus |-> adjustment]
        Targeted(t) == Distributed(t[1], t[2])
    IN  Targeted(calculate_target_calories(tdee, goal_type, rate))

\* -------------------------------------- open_food_facts (OpenFoodFactsClient)
\* JSON values of the nutriments map: a number (in tenths), a string that is
\* not a number, null
Number(tenths) == [kind |-> "number", tenths |-> tenths]
NotANumber == [kind |-> "string", tenths |-> 0]
JsonNull == [kind |-> "null", tenths |-> 0]

\* the first of the keys whose value float() accepts, else None
RECURSIVE _get_nutriment(_, _)
_get_nutriment(nutriments, keys) ==
    IF keys = <<>> THEN JsonNull
    ELSE IF Head(keys) \in DOMAIN nutriments /\ nutriments[Head(keys)].kind = "number"
    THEN nutriments[Head(keys)]
    ELSE _get_nutriment(nutriments, Tail(keys))

\* bool(value) of an Optional[float]
NonZero(value) == value.kind = "number" /\ value.tenths # 0
\* str(value) of a float: digits
FloatText(value) == ToString(value.tenths)
\* `key in text`, for texts that are a nutriment key or the digits of a float
KeyInText(key, text) == text = key
\* energy_kj / 4.184
KjToKcal(value) == Number((value.tenths * 1000) \div 4184)

NoProduct == [parsed |-> FALSE, name |-> "", calories_per_100g |-> JsonNull,
              protein_per_100g |-> JsonNull, sodium_per_100g |-> JsonNull]

_parse_product(barcode, data) ==
    LET name == IF "product_name" \in DOMAIN data /\ data["product_name"] # ""
                THEN data["product_name"]
                ELSE IF "product_name_en" \in DOMAIN data THEN data["product_name_en"] ELSE ""
        nutriments == data.nutriments
        calories == _get_nutriment(nutriments, <<"energy-kcal_100g", "energy_100g">>)
        energy_kj == IF "energy_100g" \in DOMAIN nutriments THEN nutriments["energy_100g"]
                     ELSE JsonNull
        sodium == _get_nutriment(nutriments, <<"sodium_100g">>)
    IN  IF name = "" THEN NoProduct
        ELSE [parsed |-> TRUE, name |-> name,
              calories_per_100g |->
                  IF /\ NonZero(calories) /\ KeyInText("energy_100g", FloatText(calories))
                     /\ NonZero(energy_kj)
                  THEN KjToKcal(energy_kj) ELSE calories,
              protein_per_100g |-> _get_nutriment(nutriments, <<"proteins_100g">>),
              sodium_per_100g |-> IF NonZero(sodium) /\ sodium.tenths < 100
                                  THEN Number(sodium.tenths * 1000) ELSE sodium]

\* ------------------------------------------------ auth_service (magic links)
\* settings.magic_link_expire_minutes
magic_link_expire == 15
\* email.lower()
Emails == {"Ann@Example.com", "bob@example.com"}
LowerCase == [e \in Emails |-> IF e = "Ann@Example.com" THEN "ann@example.com" ELSE e]

\* _cleanup_expired_magic_links
_cleanup_expired_magic_links(links, at) ==
    [t \in {u \in DOMAIN links : ~(at > links[u].expires)} |-> links[t]]

\* create_magic_link_token: the store afterwards (the token is the caller's)
create_magic_link_token(links, token, email, at) ==
    _cleanup_expired_magic_links(
        [t \in DOMAIN links \cup {token} |->
            IF t = token THEN [email |-> LowerCase[email], expires |-> at + magic_link_expire]
            ELSE links[t]], at)

Without(links, token) == [t \in DOMAIN links \ {token} |-> links[t]]

\* faulty variant of verify_magic_link_token: a verified token stays usable
VerifyKeepsToken(links, token, at) ==
    IF token \notin DOMAIN links THEN [links |-> links, email |-> Null]
    ELSE IF at > links[token].expires THEN [links |-> Without(links, token), email |-> Null]
    ELSE [links |-> links, email |-> links[token].email]

\* verify_magic_link_token: the store afterwards and the email returned
verify_magic_link_token(links, token, at) ==
    IF token \notin DOMAIN links THEN [links |-> links, email |-> Null]
    ELSE IF at > links[token].expires THEN [links |-> Without(links, token), email |-> Null]
    ELSE [links |-> Without(links, token), email |-> links[token].email]

\* ---- the service functions called on their own
\* product data as the API returns it: with and without a name, the energy in
\* kilocalories, in kilojoules, in both or in neither
Optionally(key, values) == {[k \in {} |-> JsonNull]} \cup {(key :> v) : v \in values}
ProductData ==
    {[product_name |-> n, nutriments |-> kcal @@ kj @@ prot @@ sod] :
        n \in {"Test Product", ""},
        kcal \in Optionally("energy-kcal_100g", {Number(900), NotANumber}),
        kj \in Optionally("energy_100g", {Number(4184), Number(5000), JsonNull}),
        prot \in Optionally("proteins_100g", {Number(35)}),
        sod \in Optionally("sodium_100g", {Number(5), Number(4000)})}

MacroInputs ==
    [sex : {"male", "female"}, weight_kg : {50, 80, 200}, height_cm : {150, 180},
     age : {30, 60}, activity_level : ActivityLevel, goal_type : GoalType,
     goal_rate : {0, 5, 10}]

\* the chat route is not in use
TurnIdle ==
    /\ store = InitialData("180", TRUE)
    /\ db = NewSession(store, FirstFreeId)
    /\ pc = "idle"
    /\ request = NoRequest
    /\ history = <<>>
    /\ response = NoResponse
    /\ idx = 0
    /\ tool_results = <<>>
    /\ created_entries = <<>>
    /\ reply = NoReply
    /\ status = "none"
    /\ trace = <<>>
    /\ user_context = NoContext
    /\ llm = NoLlm

InitServices ==
    /\ TurnIdle
    /\ AuthIdle
    /\ UpsertsIdle
    /\ \/ \E in \in MacroInputs :
             calc = [fn |-> "calculate_macros", input |-> in, done |-> FALSE, output |-> Null]
       \/ \E data \in ProductData :
             calc = [fn |-> "_parse_product", input |-> data, done |-> FALSE, output |-> Null]

CalculateMacros ==
    /\ calc.fn = "calculate_macros"
    /\ ~calc.done
    /\ LET in == calc.input
       IN  calc' = [calc EXCEPT !.done = TRUE, !.output =
                       calculate_macros(in.sex, in.weight_kg, in.height_cm, in.age,
                                        in.activity_level, in.goal_type, in.goal_rate)]
    /\ UNCHANGED <<turn, magic_links, now, auth_log, upserts>>

ParseProduct ==
    /\ calc.fn = "_parse_product"
    /\ ~calc.done
    /\ calc' = [calc EXCEPT !.done = TRUE, !.output = _parse_product("123456", calc.input)]
    /\ UNCHANGED <<turn, magic_links, now, auth_log, upserts>>

NextServices ==
    \/ CalculateMacros
    \/ ParseProduct

SpecServices == InitServices /\ [][NextServices]_vars

\* ---- magic links: any sequence of create and verify calls as time passes
MaxAuthCalls == 4       \* create and verify calls in a run
MaxTokens == 2          \* tokens issued in a run
TickMinutes == 8        \* the clock advances in steps of this many minutes
MaxTicks == 3
ForgedToken == 0        \* a token that was never issued

Issued == {auth_log[k].token : k \in {j \in DOMAIN auth_log : auth_log[j].op = "create"}}

\* POST /auth/magic-link: secrets.token_urlsafe(32) is a token never seen before
CreateMagicLink ==
    /\ Len(auth_log) < MaxAuthCalls
    /\ Cardinality(Issued) < MaxTokens
    /\ \E email \in Emails :
          LET token == Cardinality(Issued) + 1
          IN  /\ magic_links' = create_magic_link_token(magic_links, token, email, now)
              /\ auth_log' = Append(auth_log, [op |-> "create", token |-> token, at |-> now,
                                               email |-> email])
    /\ UNCHANGED <<turn, calc, now, upserts>>

\* POST /auth/verify with any token
VerifyMagicLink ==
    /\ Len(auth_log) < MaxAuthCalls
    /\ \E token \in Issued \cup {ForgedToken} :
          LET Verified(v) ==
                 /\ magic_links' = v.links
                 /\ auth_log' = Append(auth_log, [op |-> "verify", token |-> token, at |-> now,
                                                  email |-> v.email])
          IN  Verified(verify_magic_link_token(magic_links, token, now))
    /\ UNCHANGED <<turn, calc, now, upserts>>

Tick ==
    /\ now < MaxTicks * TickMinutes
    /\ now' = now + TickMinutes
    /\ UNCHANGED <<turn, calc, magic_links, auth_log, upserts>>

InitAuth ==
    /\ TurnIdle
    /\ calc = NoCalc
    /\ AuthIdle
    /\ UpsertsIdle

NextAuth ==
    \/ CreateMagicLink
    \/ VerifyMagicLink
    \/ Tick

SpecAuth == InitAuth /\ [][NextAuth]_vars

\* ---- concurrent requests that upsert the user's macro targets
\* Every request has its own session and transaction (get_db); PostgreSQL
\* runs them READ COMMITTED: a statement sees what is committed when it runs
\* plus what its own transaction has written.
MaxSessions == 2
Users == {Acting, OtherUser}
UpsertKinds == {"set_goal", "set_custom_macros", "calculate"}
ToolKinds == {"set_goal", "set_custom_macros"}

NewRequest == [pc |-> "idle", kind |-> Null, user |-> Null, found |-> {}, inserted |-> {},
               writes |-> EmptyTable, calls |-> 0, exc |-> Null]

\* the values the operation assigns: calculated ones, or the call's arguments
TargetsRow(user, kind) ==
    [user_id |-> user,
     calories |-> IF kind = "set_custom_macros" THEN "2200" ELSE "1",
     protein_g |-> "100", carbs_g |-> "180", fat_g |-> "70", fiber_g |-> Null,
     bmr |-> Null, tdee |-> Null]

\* what the transaction of session s sees of the table
Visible(table, s) ==
    [i \in DOMAIN table \cup DOMAIN s.writes |->
        IF i \in DOMAIN s.writes THEN s.writes[i] ELSE table[i]]

\* faulty variant of UniqueViolation: a table without the constraint
NoUniqueConstraint(table, user) == FALSE
\* user_id ... unique=True: the insert of a second row for the user fails
UniqueViolation(table, user) == \E i \in DOMAIN table : table[i].user_id = user

\* select(MacroTargets).where(MacroTargets.user_id == user.id)
SelectTargets(table, s) ==
    {i \in DOMAIN Visible(table, s) : Visible(table, s)[i].user_id = s.user}

\* another transaction holds an uncommitted write the statement must wait for
InFlight(r) == {o \in DOMAIN sessions \ {r} : sessions[o].pc \in {"selected", "flushed"}}
RowLocked(r, i) == \E o \in InFlight(r) : i \in DOMAIN sessions[o].writes
InsertPending(r, user) ==
    \E o \in InFlight(r) : \E i \in sessions[o].inserted : sessions[o].writes[i].user_id = user

\* a request arrives: the route, or the tool handler of a chat turn, selects
\* the user's targets row
BeginUpsert ==
    /\ Cardinality(DOMAIN sessions) < MaxSessions
    /\ \E user \in Users, kind \in UpsertKinds :
          LET r == Cardinality(DOMAIN sessions) + 1
              s == [NewRequest EXCEPT !.kind = kind, !.user = user, !.calls = 1]
          IN  sessions' = sessions @@
                  (r :> [s EXCEPT !.pc = "selected", !.found = SelectTargets(macro_targets, s)])
    /\ UNCHANGED <<turn, calc, magic_links, now, auth_log, macro_targets>>

\* a later tool call of the same chat turn, in the same transaction
NextToolCall ==
    /\ \E r \in DOMAIN sessions, kind \in ToolKinds :
          /\ sessions[r].pc = "flushed"
          /\ sessions[r].kind \in ToolKinds
          /\ sessions[r].calls < MaxCalls
          /\ sessions' = [sessions EXCEPT ![r].pc = "selected", ![r].kind = kind,
                             ![r].calls = @ + 1,
                             ![r].found = SelectTargets(macro_targets, sessions[r])]
    /\ UNCHANGED <<turn, calc, magic_links, now, auth_log, macro_targets>>

\* scalar_one_or_none(), update or db.add, then await db.flush()
FlushUpsert ==
    /\ \E r \in DOMAIN sessions :
          LET s == sessions[r]
              row == TargetsRow(s.user, s.kind)
          IN  /\ s.pc = "selected"
              /\ IF Cardinality(s.found) > 1
                 THEN sessions' = [sessions EXCEPT ![r].pc = "rolled_back",
                                         ![r].writes = EmptyTable,
                                         ![r].exc = "MultipleResultsFound"]
                 ELSE IF s.found # {}
                 THEN LET tid == CHOOSE t \in s.found : TRUE
                      IN  /\ ~RowLocked(r, tid)
                          /\ sessions' = [sessions EXCEPT ![r].pc = "flushed",
                                             ![r].writes = (tid :> row) @@ s.writes]
                 ELSE /\ ~InsertPending(r, s.user)
                      /\ IF UniqueViolation(macro_targets, s.user)
                         THEN sessions' = [sessions EXCEPT ![r].pc = "rolled_back",
                                                 ![r].writes = EmptyTable,
                                                 ![r].exc = "IntegrityError"]
                         ELSE sessions' = [sessions EXCEPT ![r].pc = "flushed",
                                              ![r].inserted = {FirstFreeId + r},
                                              ![r].writes = ((FirstFreeId + r) :> row) @@ s.writes]
    /\ UNCHANGED <<turn, calc, magic_links, now, auth_log, macro_targets>>

\* get_db: await session.commit() after the route has returned
CommitUpsert ==
    /\ \E r \in DOMAIN sessions :
          /\ sessions[r].pc = "flushed"
          /\ macro_targets' = Visible(macro_targets, sessions[r])
          /\ sessions' = [sessions EXCEPT ![r].pc = "committed"]
    /\ UNCHANGED <<turn, calc, magic_links, now, auth_log>>

\* get_db: await session.rollback() when the request raised
RollbackUpsert ==
    /\ \E r \in DOMAIN sessions :
          /\ sessions[r].pc \in {"selected", "flushed"}
          /\ sessions' = [sessions EXCEPT ![r].pc = "rolled_back", ![r].writes = EmptyTable]
    /\ UNCHANGED <<turn, calc, magic_links, now, auth_log, macro_targets>>

InitTargets ==
    /\ TurnIdle
    /\ calc = NoCalc
    /\ AuthIdle
    /\ macro_targets \in {EmptyTable, InitialData("180", TRUE).targets}
    /\ sessions = NoSessions

NextTargets ==
    \/ BeginUpsert
    \/ NextToolCall
    \/ FlushUpsert
    \/ CommitUpsert
    \/ RollbackUpsert

SpecTargets == InitTargets /\ [][NextTargets]_vars

\* ---- a profile update followed by any other tool call
\* The user may or may not have a birth date on record; the first call of
\* the turn is update_profile with a well-formed date_of_birth.
BirthDates == {Null, "1990-05-17"}
InitProfile ==
    /\ \E h \in {Null, "180"}, t \in BOOLEAN, b \in BirthDates :
          store = [InitialData(h, t) EXCEPT !.user.birth_date = b]
    /\ db = SessionAtDispatch(store)
    /\ pc = "dispatch"
    /\ request = [message |-> "log it", conversation_id |-> Null, include_context |-> TRUE]
    /\ history = <<>>
    /\ \E d \in DateStrings, k \in DOMAIN AllShapes :
          response = [message |-> "Logged.",
                      tool_calls |-> <<ToolCall(CallId(1), "update_profile", [date_of_birth |-> d]),
                                       ToolCall(CallId(2), AllShapes[k].name,
                                                AllShapes[k].arguments)>>,
                      conversation_id |-> MintedConversationId,
                      model_used |-> claude_model, tokens_used |-> "100"]
    /\ idx = 0
    /\ tool_results = <<>>
    /\ created_entries = <<>>
    /\ reply = NoReply
    /\ status = "none"
    /\ trace = <<>>
    /\ user_context = RouteContext(NewSession(store, FirstFreeId))
    /\ llm = [settings |-> DefaultSettings, vendor |-> VendorOk("Logged.", response.tool_calls),
              outcome |-> ChatOutcome("anthropic", TRUE, FALSE, <<>>,
                                      _build_context_message(user_context), response)]
    /\ AsideIdle

SpecProfile == InitProfile /\ [][NextDispatch]_vars

\* ================================================================== claims
Calls == response.tool_calls
Dispatched == 1..Len(trace)
ResponseBuilt == reply.message # Null
InSeq(x, seq) == \E k \in DOMAIN seq : seq[k] = x
UserTurn == ChatMessage("user", request.message, response.conversation_id, <<>>)
AssistantTurn == AssistantMessage(response)
SameExceptChat(a, b) == [a EXCEPT !.chat = <<>>] = [b EXCEPT !.chat = <<>>]

\* C1: a response to a completion with N >= 1 tool calls carries exactly N
\* tool results, the i-th one bearing the id of the i-th tool call, for any
\* mix of successes and failures.
C1_ResultsPairedInOrder ==
    (ResponseBuilt /\ Len(Calls) >= 1) =>
        /\ reply.tool_calls = Calls
        /\ Len(reply.tool_results) = Len(Calls)
        /\ \A k \in 1..Len(Calls) : reply.tool_results[k].tool_call_id = Calls[k].id

C1_Witness ==
    /\ status = "200"
    /\ Len(Calls) = 2
    /\ reply.tool_results[1].success
    /\ ~reply.tool_results[2].success

\* C2: every dispatched call yields a ToolResult with that call's id and no
\* exception leaves _execute_tool; a handler that raised is reported as
\* success=false with the exception's message; and the loop is only left
\* once every tool call of the turn has been dispatched.
C2_DispatchTotal ==
    /\ Len(trace) = idx
    /\ Len(tool_results) = idx
    /\ \A k \in Dispatched :
          /\ ~trace[k].escaped
          /\ tool_results[k].tool_call_id = Calls[k].id
          /\ trace[k].handler_raised =>
                /\ ~tool_results[k].success
                /\ tool_results[k].error = trace[k].exc
    /\ (pc \in {"respond", "commit", "raise"} \/ status \in {"200", "500"}) => idx = Len(Calls)

C2_Witness ==
    /\ Len(trace) = 2
    /\ trace[1].handler_raised
    /\ tool_results[2].success

\* C3 (as claimed): a storage failure inside one tool handler stays in that
\* call's result: the request still returns a response and both turns of the
\* exchange are stored.
C3_StorageFailureConfined ==
    (pc = "done" /\ status # "crashed" /\ \E k \in Dispatched : trace[k].broke) =>
        /\ status = "200"
        /\ InSeq(UserTurn, store.chat)
        /\ InSeq(AssistantTurn, store.chat)

\* C4 (as claimed): once tool dispatch has begun the user's turn is stored
\* for good: a request that fails or crashes afterwards leaves it in the
\* stored conversation.
C4_UserTurnDurable ==
    (status \in {"500", "crashed"} /\ Len(trace) >= 1) => InSeq(UserTurn, store.chat)

\* the stored effect of a call that reported success: the water entry it
\* named exists, the meal it deleted is gone
EffectStored(k) ==
    /\ Calls[k].name = "add_water" => tool_results[k].result.entry_id \in DOMAIN store.water
    /\ Calls[k].name = "delete_meal" =>
          UuidText[Calls[k].arguments["meal_id"]] \notin DOMAIN store.meals

\* C5 (as claimed): the effect of a call that reported success=true is in
\* storage when the request is over, whatever happened to later calls or
\* later steps of the request.
C5_EffectsCommittedPerCall ==
    (pc = "done" /\ status \in {"200", "500"}) =>
        \A k \in Dispatched : tool_results[k].success => EffectStored(k)

\* the loop of lines 126-131 run on a list of calls, no statement failing
RECURSIVE RunCalls(_, _)
RunCalls(session, calls) ==
    IF calls = <<>> THEN <<>>
    ELSE LET out == _execute_tool(session, Head(calls), FALSE)
         IN  <<out.result>> \o RunCalls(out.db, Tail(calls))
SuccessOf(results, id) == (CHOOSE k \in DOMAIN results : results[k].tool_call_id = id) \in
                              {k \in DOMAIN results : results[k].success}

\* C6 (as claimed): from the same stored data, every permutation of the
\* turn's tool calls gives each call the same success/failure outcome.
C6_OutcomeIndependentOfOrder ==
    (pc = "dispatch" /\ idx = 0) =>
        \A p \in Permutations(DOMAIN Calls) :
            LET permuted == [k \in DOMAIN Calls |-> Calls[p[k]]]
            IN  \A k \in DOMAIN Calls :
                   SuccessOf(RunCalls(db, permuted), Calls[k].id)
                     = SuccessOf(RunCalls(db, Calls), Calls[k].id)

\* the call failed on a missing or invalid argument
ArgumentErrors ==
    {"not a valid GoalType", "not a valid ActivityLevel", "not a valid MealType",
     "not a valid WorkoutType", "time data does not match format '%Y-%m-%d'",
     "Invalid isoformat string", "badly formed hexadecimal UUID string"}
    \cup {KeyErrorMsg(f) : f \in {"name", "amount_ml", "weight_kg", "calories", "protein_g",
                                  "carbs_g", "fat_g", "meal_id", "workout_id", "plan_id",
                                  "duration_min"}}
FailedOnArgument(k) == trace[k].handler_raised /\ trace[k].exc \in ArgumentErrors

\* C7 (as claimed): a turn whose tool calls all failed on a missing or
\* invalid argument stores nothing but the two chat turns.
C7_InvalidCallChangesNothing ==
    (status = "200" /\ Len(trace) >= 1 /\ \A k \in Dispatched : FailedOnArgument(k)) =>
        SameExceptChat(store, db.base)

\* C8 (as claimed): a call that omits a field the catalog declares required,
\* or gives a value outside a declared enum, gets success=false with a
\* non-empty error.
C8_SchemaViolationsRejected ==
    \A k \in Dispatched :
        ViolatesSchema(Calls[k]) =>
            /\ ~trace[k].escaped
            /\ ~tool_results[k].success
            /\ Truthy(tool_results[k].error)

\* the six tools that address a record by id, with the table they look in,
\* the argument that carries the id and the name used in the error
ById ==
    [update_meal |-> [table |-> "meals", key |-> "meal_id", what |-> "Meal"],
     delete_meal |-> [table |-> "meals", key |-> "meal_id", what |-> "Meal"],
     update_workout |-> [table |-> "workouts", key |-> "workout_id", what |-> "Workout"],
     delete_workout |-> [table |-> "workouts", key |-> "workout_id", what |-> "Workout"],
     update_workout_plan |-> [table |-> "plans", key |-> "plan_id", what |-> "Plan"],
     delete_workout_plan |-> [table |-> "plans", key |-> "plan_id", what |-> "Plan"]]
ForeignRows(table) == {i \in DOMAIN store[table] : store[table][i].user_id = OtherUser}
TargetsForeign(tc) ==
    /\ tc.name \in DOMAIN ById
    /\ Has(tc.arguments, ById[tc.name].key)
    /\ IsUuid(tc.arguments[ById[tc.name].key])
    /\ UuidText[tc.arguments[ById[tc.name].key]] \in ForeignRows(ById[tc.name].table)
NotFoundMsg(tc) == ById[tc.name].what \o " not found"
ForeignRowsUntouched ==
    \A table \in {"meals", "workouts", "plans"} :
        \A i \in ForeignRows(table) :
            /\ i \in DOMAIN db.mem[table] /\ db.mem[table][i] = store[table][i]
            /\ i \in DOMAIN db.txn[table] /\ db.txn[table][i] = store[table][i]
            /\ store[table][i] = InitialData(Null, FALSE)[table][i]

\* the session as it would be if no other user had any record
OwnOnly(t) == [i \in {j \in DOMAIN t : t[j].user_id = Acting} |-> t[i]]
HideForeign(s) ==
    [s EXCEPT !.mem.meals = OwnOnly(@), !.mem.workouts = OwnOnly(@), !.mem.plans = OwnOnly(@),
              !.txn.meals = OwnOnly(@), !.txn.workouts = OwnOnly(@), !.txn.plans = OwnOnly(@)]
NoForeignRead ==
    (pc = "dispatch" /\ idx < Len(Calls)) =>
        _execute_tool(db, Calls[idx + 1], FALSE).result
            = _execute_tool(HideForeign(db), Calls[idx + 1], FALSE).result

C10_UnknownToolRejected ==
    \A k \in Dispatched :
        /\ Calls[k].name \notin CatalogNames =>
              /\ tool_results[k] = ToolResult(Calls[k].id, NoneResult, FALSE,
                                              "Unknown tool: " \o Calls[k].name)
              /\ trace[k].ops = 0
              /\ ~trace[k].changed
              /\ ~trace[k].broke
        /\ Calls[k].name \in CatalogNames =>
              tool_results[k].error # "Unknown tool: " \o Calls[k].name

C10_Witness ==
    /\ Len(trace) = 2
    /\ Calls[2].name = "levitate"
    /\ tool_results[2].error = "Unknown tool: levitate"
    /\ tool_results[1].success

\* C14 (as claimed): set_goal with goal_type "cut" for a user without a
\* recorded height, on a working session, leaves the macro targets alone,
\* sets the goal on the user and answers success=true.
C14_GoalWithoutHeightSucceeds ==
    \A k \in Dispatched :
        (/\ Calls[k].name = "set_goal"
         /\ Calls[k].arguments = [goal_type |-> "cut"]
         /\ store.user.height_cm = Null
         /\ Len(trace) = 1
         /\ trace[k].was_active /\ ~trace[k].broke) =>
            /\ tool_results[k].success
            /\ db.txn.user.goal_type = "cut"
            /\ db.txn.targets = store.targets

\* what add_weight had written when it reported: the new body-weight entry,
\* the user's current weight
EntryWritten(before, after, args) ==
    \E i \in DOMAIN after.txn.weights \ DOMAIN before.txn.weights :
        Has(args, "weight_kg") /\ after.txn.weights[i].weight_kg = args["weight_kg"]
UserWeightWritten(after, args) ==
    Has(args, "weight_kg") /\ after.txn.user.current_weight_kg = args["weight_kg"]
WeightReport(before, args, out) ==
    /\ EntryWritten(before, out.db, args) <=> UserWeightWritten(out.db, args)
    /\ out.result.success => (EntryWritten(before, out.db, args) /\ UserWeightWritten(out.db, args))
    /\ (out.db.state # "active") => ~out.result.success

\* C15: when add_weight reports, either both of its writes (the body-weight
\* entry and the user's current weight) are done or neither is, and a result
\* with success=true only comes with both done; a failed write is reported
\* as success=false.
C15_WeightWritesBeforeReport ==
    (pc = "dispatch" /\ idx < Len(Calls) /\ Calls[idx + 1].name = "add_weight"
        /\ db.txn.user.current_weight_kg = "70") =>
        \A fault \in BOOLEAN :
            WeightReport(db, Calls[idx + 1].arguments,
                         _execute_tool(db, Calls[idx + 1], fault))

C15_Witness ==
    /\ Len(trace) = 2
    /\ Calls[2] = ToolCall("toolu_2", "add_weight", [weight_kg |-> "80"])
    /\ trace[2].was_active /\ ~trace[2].broke
    /\ db.txn.user.current_weight_kg = "80"
    /\ \E i \in DOMAIN db.txn.weights : db.txn.weights[i].weight_kg = "80"

\* C20: every ToolResult of dispatch is either a failure with a null result
\* and a non-empty error, or a success with a null error and a result.
C20_ResultShape ==
    \A k \in DOMAIN tool_results :
        /\ ~tool_results[k].success =>
              /\ tool_results[k].result = NoneResult
              /\ tool_results[k].error \notin {Null, ""}
        /\ tool_results[k].success =>
              /\ tool_results[k].error = Null
              /\ tool_results[k].result # NoneResult

C20_Witness ==
    /\ Len(tool_results) = 2
    /\ tool_results[1].success
    /\ ~tool_results[2].success
    /\ Calls[2].name = "search_food"

\* ---- the completion step
ChatReturned == llm # NoLlm
Vendors == {"anthropic", "openai"}
KeyOf(settings, v) ==
    IF v = "anthropic" THEN settings.anthropic_api_key ELSE settings.openai_api_key
HasCredentials(settings, v) == KeyOf(settings, v) \notin {Null, ""}

\* C17: provider selection returns the preferred provider whenever it has
\* credentials, otherwise a provider that has credentials if there is one,
\* and no provider exactly when neither vendor has credentials, for every
\* preferred value and every combination of credentials.
C17_ProviderSelection ==
    ChatReturned =>
        LET st == llm.settings
            chosen == llm.outcome.provider
            preferred == LowerStrip[st.ai_provider]
        IN  /\ (preferred \in Vendors /\ HasCredentials(st, preferred)) => chosen = preferred
            /\ (\E v \in Vendors : HasCredentials(st, v)) =>
                  (chosen \in Vendors /\ HasCredentials(st, chosen))
            /\ (chosen = Null) <=> (\A v \in Vendors : ~HasCredentials(st, v))

C17_Witness ==
    /\ ChatReturned
    /\ llm.settings = Settings(" OpenAI ", "sk-key", "sk-key")
    /\ llm.outcome.provider = "openai"

\* C19: with no credentials for either vendor, chat() returns model_used
\* "none", the fixed "not configured" message and no tool calls, without
\* raising and without calling a vendor; no tool is dispatched in that turn
\* and the response that is returned carries that message.
C19_NoProviderDegrades ==
    (ChatReturned /\ \A v \in Vendors : ~HasCredentials(llm.settings, v)) =>
        /\ ~llm.outcome.raised
        /\ ~llm.outcome.called
        /\ response.model_used = "none"
        /\ response.message = NotConfiguredMsg
        /\ response.tool_calls = <<>>
        /\ trace = <<>>
        /\ ResponseBuilt => (reply.message = NotConfiguredMsg /\ reply.tool_results = <<>>)

C19_Witness ==
    /\ status = "200"
    /\ llm.settings = NoSettings
    /\ reply.message = NotConfiguredMsg
    /\ SameExceptChat(store, db.base)

\* C18: an exception raised while the vendor is called or its answer is
\* translated is turned by chat() into a response with the apology and no tool
\* calls; chat() never raises, so no tool is dispatched in that turn and the
\* response that is returned carries the apology.
VendorFailed == ChatReturned /\ llm.outcome.called /\ llm.vendor.kind # "ok"
C18_VendorFailureDegrades ==
    /\ ChatReturned => ~llm.outcome.raised
    /\ VendorFailed =>
          /\ response.message = ApologyMsg(llm.vendor.error)
          /\ response.tool_calls = <<>>
          /\ pc # "raise" \/ db.state # "active"
          /\ trace = <<>>
          /\ ResponseBuilt => (reply.message = response.message /\ reply.tool_results = <<>>)

C18_Witness ==
    /\ status = "200"
    /\ VendorFailed
    /\ llm.vendor = VendorMalformed
    /\ reply.message = ApologyMsg(VendorMalformed.error)
    /\ InSeq(AssistantTurn, store.chat)

\* C13 (as claimed): whenever the vendor's answer has at least one tool call
\* and no text, the completion's message is a non-empty placeholder, for the
\* Anthropic-style and for the OpenAI-style adapter alike: a completion that
\* carries tool calls never has an empty message.
C13_ToolCallsNeverWithoutText ==
    (ChatReturned /\ response.tool_calls # <<>>) => response.message \notin {Null, ""}

\* the fields of the digest for which the user's state holds a value
DigestHasValue(s, key) ==
    CASE key = "name" -> s.txn.user.display_name # Null
      [] key = "goal_type" -> s.txn.user.goal_type # Null
      [] key \in {"calories_target", "protein_target"} -> OwnRows(s, "targets") # {}
      [] OTHER -> TRUE
ValuedContext(s, ctx) == [k \in {f \in DOMAIN ctx : DigestHasValue(s, f)} |-> ctx[k]]

\* C16 (as claimed): the digest lists name, goal, calorie target, protein
\* target, calories consumed today and water today in that order, with a line
\* only for a field that has a value, and never renders a missing value as
\* None or as placeholder text, for every user state the route builds it from.
C16_DigestOmitsMissing ==
    (ChatReturned /\ llm.outcome.called) =>
        llm.outcome.context_msg = _build_context_message(ValuedContext(db, user_context))

\* every user/assistant turn with text that the conversation holds, oldest first
WholeHistory(data, conv) ==
    LET shown(m) == /\ m.user_id = Acting /\ m.conversation_id = conv
                    /\ m.role \in {"user", "assistant"} /\ m.content \notin {Null, "", " "}
        kept == SelectSeq(data.chat, shown)
    IN  [k \in DOMAIN kept |-> [role |-> kept[k].role, content |-> kept[k].content]]

\* C12 (as claimed): the history handed to the vendor has at most 10 turns and
\* they are the most recent turns of the conversation, in chronological order,
\* for a stored conversation of any length, also one of more than 20 turns.
C12_RecentHistorySent ==
    (ChatReturned /\ llm.outcome.called /\ request.conversation_id # Null) =>
        /\ Len(llm.outcome.sent_history) <= 10
        /\ llm.outcome.sent_history = LastN(WholeHistory(store, request.conversation_id), 10)

\* ---- the order of the steps of a turn
UserTurnRecorded == InSeq(UserTurn, db.mem.chat)
AssistantTurnRecorded ==
    \E k \in DOMAIN db.mem.chat :
        /\ db.mem.chat[k].role = "assistant"
        /\ db.mem.chat[k].conversation_id = response.conversation_id
        /\ db.mem.chat[k].content = response.message
        /\ db.mem.chat[k].tool_calls = llm.outcome.response.tool_calls
        /\ db.mem.chat[k].model_used = llm.outcome.response.model_used
        /\ db.mem.chat[k].tokens_used = llm.outcome.response.tokens_used
        /\ \E j \in 1..(k - 1) : db.mem.chat[j] = UserTurn
AllResultsKnown == ChatReturned /\ idx = Len(Calls) /\ Len(tool_results) = Len(Calls)

\* C11: in every turn the completion is obtained, then the user turn is
\* recorded, then every tool call is dispatched, then the assistant turn is
\* recorded with the provider's complete list of tool calls, the model and the
\* token usage, and only then the response is returned: no handler runs
\* before the user turn is recorded, and the assistant turn is never recorded
\* before the last tool result is known.
C11_StepsInOrder ==
    [][ /\ (~UserTurnRecorded /\ UserTurnRecorded') => (ChatReturned /\ trace = <<>>)
        /\ (trace = <<>> /\ trace' # <<>>) => UserTurnRecorded
        /\ (trace' # trace) => (~AssistantTurnRecorded /\ ~ResponseBuilt)
        /\ (~AssistantTurnRecorded /\ AssistantTurnRecorded') => (AllResultsKnown /\ ~ResponseBuilt)
        /\ (~ResponseBuilt /\ ResponseBuilt') =>
              (AssistantTurnRecorded /\ AllResultsKnown /\ reply'.tool_results = tool_results)
      ]_vars

C11_Witness ==
    /\ status = "200"
    /\ Len(Calls) = 2
    /\ Len(trace) = 2
    /\ \E k \in DOMAIN store.chat :
          /\ store.chat[k] = AssistantTurn
          /\ store.chat[k].tool_calls = Calls
          /\ store.chat[k].model_used = claude_model
          /\ store.chat[k].tokens_used = "100"
          /\ k > 1 /\ store.chat[k - 1] = UserTurn

\* C21 (as claimed): every ToolCall of a completion, and so every tool call
\* handed to the dispatcher, has a name of the tool catalog, whatever the
\* vendor returns.
C21_CallNamesInCatalog ==
    ChatReturned =>
        \A k \in DOMAIN response.tool_calls : response.tool_calls[k].name \in CatalogNames

\* the rows the turn added to the session, and the ones it committed
TurnsAdded == SubSeq(db.mem.chat, Len(db.base.chat) + 1, Len(db.mem.chat))
TurnsCommitted == SubSeq(store.chat, Len(db.base.chat) + 1, Len(store.chat))

SummaryArguments == {EmptyArgs, [date |-> "2024-01-01"], [date |-> Today], [date |-> "tomorrow"]}
SummaryCall(args) == ToolCall("toolu_9", "get_daily_summary", args)
\* the first call leaves the data alone and the second returns what it returned
Repeatable(before, tc, first) ==
    /\ first.db.txn = before.txn
    /\ first.db.mem = before.mem
    /\ ~first.raised
    /\ _execute_tool(first.db, tc, FALSE).result = first.result
    /\ _execute_tool(first.db, tc, FALSE).db.txn = before.txn

RECURSIVE IsSubsequence(_, _)
IsSubsequence(a, b) ==
    IF a = <<>> THEN TRUE
    ELSE IF b = <<>> THEN FALSE
    ELSE IF Head(a) = Head(b) THEN IsSubsequence(Tail(a), Tail(b))
    ELSE IsSubsequence(a, Tail(b))

ContextBuilt == pc \in {"chat", "save_user"}
HistoryWanted == request.include_context /\ request.conversation_id \notin {Null, ""}
\* get_current_user and the three selects of the user context
QueriesWithoutHistory == 4

\* C24: with include_context=false or no conversation_id the turn runs no
\* query on conversation storage and the provider receives an empty history;
\* with include_context=true and a conversation without prior turns the
\* history is empty and no error occurs; a loaded history holds only the
\* acting user's user/assistant turns of that conversation with non-blank
\* content, oldest first.
C24_HistoryLoading ==
    /\ (ContextBuilt /\ ~HistoryWanted) =>
          /\ db.ops = QueriesWithoutHistory
          /\ history = <<>>
          /\ (ChatReturned /\ llm.outcome.called) => llm.outcome.sent_history = <<>>
    /\ (ContextBuilt /\ HistoryWanted) =>
          /\ db.ops = QueriesWithoutHistory + 1
          /\ IsSubsequence(history, WholeHistory(store, request.conversation_id))
          /\ WholeHistory(store, request.conversation_id) = <<>> => history = <<>>
    /\ (pc = "raise" /\ ~ChatReturned) => db.state # "active"

C24_Witness ==
    /\ pc = "save_user"
    /\ HistoryWanted
    /\ Len(store.chat) = 13
    /\ Len(history) = 11
    /\ history[1].content = "turn 1" /\ history[4].content = "turn 5"
    /\ history[11].content = "turn 12"

\* ---- service functions
Calculated == calc.fn = "calculate_macros" /\ calc.done
\* ten times the calories the macros imply: 4 x protein + 9 x fat + 4 x carbs
ImpliedCalories10(m) == 4 * m.protein_g + 9 * m.fat_g + 4 * m.carbs_g
Abs(x) == IF x < 0 THEN 0 - x ELSE x

\* C25 (as claimed): for every input to calculate_macros the calories implied
\* by the returned macros differ from the returned calorie target by less
\* than 10: carbohydrates fill the calories left after protein and fat.
C25_MacrosAddUp ==
    Calculated => Abs(ImpliedCalories10(calc.output) - 10 * calc.output.calories) < 100

Parsed == calc.fn = "_parse_product" /\ calc.done /\ calc.output.parsed
GivenNutriment(key) ==
    IF key \in DOMAIN calc.input.nutriments THEN calc.input.nutriments[key] ELSE JsonNull

\* C26 (as claimed): _parse_product sets calories_per_100g to the
\* energy-kcal_100g value when that nutriment is present, ignoring
\* energy_100g, and otherwise, when only energy_100g is present, to that
\* kilojoule value divided by 4.184.
C26_EnergyInKilocalories ==
    Parsed =>
        /\ GivenNutriment("energy-kcal_100g").kind = "number" =>
              calc.output.calories_per_100g = GivenNutriment("energy-kcal_100g")
        /\ ("energy-kcal_100g" \notin DOMAIN calc.input.nutriments
              /\ GivenNutriment("energy_100g").kind = "number") =>
              calc.output.calories_per_100g = KjToKcal(GivenNutriment("energy_100g"))

\* ---- magic links
Verifications == {k \in DOMAIN auth_log : auth_log[k].op = "verify"}
Creations == {k \in DOMAIN auth_log : auth_log[k].op = "create"}
VerifiedBefore(k) == \E j \in Verifications : j < k /\ auth_log[j].token = auth_log[k].token
\* the creation of the token that call k verifies, if it was issued before k
CreationOf(k) == {j \in Creations : j < k /\ auth_log[j].token = auth_log[k].token}
Usable(k) ==
    /\ CreationOf(k) # {}
    /\ ~VerifiedBefore(k)
    /\ \A j \in CreationOf(k) : auth_log[k].at <= auth_log[j].at + magic_link_expire

\* C27: a magic-link token is single-use and time-limited: a verification
\* returns the lower-cased email the token was created for only if the token
\* was issued, was not verified before and has not expired; after any
\* verification of an issued token the token is out of the store and every
\* later verification returns None, under any sequence of calls.
C27_MagicLinkSingleUse ==
    /\ \A k \in Verifications :
          /\ auth_log[k].email # Null => Usable(k)
          /\ Usable(k) =>
                \A j \in CreationOf(k) : auth_log[k].email = LowerCase[auth_log[j].email]
          /\ auth_log[k].token \notin DOMAIN magic_links
    /\ \A t \in DOMAIN magic_links : t \in Issued

C27_Witness ==
    /\ Len(auth_log) = 4
    /\ auth_log[1].op = "create" /\ auth_log[1].email = "Ann@Example.com"
    /\ auth_log[2].op = "verify" /\ auth_log[2].token = 1 /\ auth_log[2].email = "ann@example.com"
    /\ auth_log[3].op = "verify" /\ auth_log[3].token = 1 /\ auth_log[3].email = Null
    /\ auth_log[4].op = "create"
    /\ DOMAIN magic_links = {2}

C27_ExpiredWitness ==
    /\ Len(auth_log) = 2
    /\ auth_log[1].op = "create"
    /\ auth_log[2].op = "verify" /\ auth_log[2].token = 1 /\ auth_log[2].email = Null
    /\ auth_log[2].at > auth_log[1].at + magic_link_expire

\* ---- what a turn leaves in the database
NewWeightEntries == DOMAIN store.weights \ DOMAIN db.base.weights

\* C28 (as claimed): if add_weight returns success=false, the turn persists
\* neither a new body-weight entry nor a change of the user's current weight
\* from that call: the flag the caller sees agrees with what was stored.
C28_FailedWeightNotPersisted ==
    (/\ status = "200"
     /\ Len(Calls) = 2 /\ Calls[1].name = "add_water" /\ Calls[2].name = "add_weight"
     /\ ~reply.tool_results[2].success) =>
        /\ NewWeightEntries = {}
        /\ store.user.current_weight_kg = db.base.user.current_weight_kg

\* ------------------------------------------------------------------- C29
\* C29: after any sequence or interleaving of set_goal and
\* set_custom_macros tool calls and /user/targets/calculate requests, the
\* committed table holds at most one macro-targets row per user, and an
\* operation that found the user's row has not added another one.
RowsOf(table, user) == {i \in DOMAIN table : table[i].user_id = user}
C29_OneTargetsRowPerUser ==
    /\ \A user \in Users : Cardinality(RowsOf(macro_targets, user)) <= 1
    /\ \A r \in DOMAIN sessions :
          sessions[r].found # {} /\ sessions[r].pc \in {"flushed", "committed"}
             => \A i \in DOMAIN sessions[r].writes :
                   i \in sessions[r].inserted \/ i \in sessions[r].found
\* two requests of one user both selected no row; one committed its insert
\* and the other's insert then failed on the unique constraint
C29_Witness ==
    \E a, b \in DOMAIN sessions :
        /\ a # b
        /\ sessions[a].user = sessions[b].user
        /\ sessions[a].found = {} /\ sessions[b].found = {}
        /\ sessions[a].pc = "committed" /\ sessions[a].inserted # {}
        /\ sessions[b].pc = "rolled_back" /\ sessions[b].exc = "IntegrityError"
        /\ sessions[b].kind # sessions[a].kind
        /\ Cardinality(RowsOf(macro_targets, sessions[a].user)) = 1

\* ------------------------------------------------------------------- C30
\* C30: right after an update_profile call that supplied date_of_birth and
\* returned success=true, the birth date the transaction holds for the user
\* is the supplied date.
C30_BirthDateStored ==
    LET k == Len(tool_results)
    IN  (/\ k > 0
         /\ Calls[k].name = "update_profile"
         /\ Has(Calls[k].arguments, "date_of_birth")
         /\ tool_results[k].success)
           => /\ db.txn.user.birth_date = Calls[k].arguments["date_of_birth"]
              /\ db.mem.user.birth_date = Calls[k].arguments["date_of_birth"]

====
